---------------------------- MODULE Spec2Model ----------------------------
(***************************************************************************)
(* FIFO ledger of holding-analyzer.                                        *)
(*                                                                         *)
(* Three FIFO engines are modelled, each from its own source:              *)
(*   calculate_holdings                    src/transaction_parser.py       *)
(*   compute_realized_fifo                 src/scripts/migrate_realized_pnl.py *)
(*   _recalculate_realized_pnl_for_symbol  src/backend/api.py              *)
(* together with the loaders that order the rows they consume and the      *)
(* REST handlers add_transaction / delete_transaction.                     *)
(*                                                                         *)
(* Numbers.  The code computes in binary floating point.  The model keeps  *)
(* every number as an exact rational <<n, d>> in lowest terms with d > 0;  *)
(* <<0, 0>> is NaN (a missing pandas value).  The inputs below are chosen  *)
(* so that every quotient the engines form is dyadic, for which the float  *)
(* results of the code are exact as well.                                  *)
(***************************************************************************)
EXTENDS Integers, Sequences, FiniteSets, Bags, TLC

(***************************************************************************)
(* Rational arithmetic with NaN                                            *)
(***************************************************************************)
RECURSIVE Gcd(_, _)
Gcd(a, b) == IF b = 0 THEN a ELSE Gcd(b, a % b)

IAbs(n) == IF n < 0 THEN -n ELSE n

NaN == <<0, 0>>

IsNaN(a) == a[2] = 0

Norm(n, d) ==
    IF d = 0 THEN NaN
    ELSE LET g == Gcd(IAbs(n), IAbs(d))
             s == IF d < 0 THEN -1 ELSE 1
         IN  <<(s * n) \div g, (s * d) \div g>>

R(n) == <<n, 1>>
Zero == R(0)

\* Common factors are cancelled before the products are formed, so that
\* the intermediate values stay small; the results are those of the
\* textbook formulas.
\* a / 0.0 raises: no number comes back, and no division of the engines is
\* reached with a zero divisor (each is guarded by a test of the quantity)
ZeroDivisionError == "ZeroDivisionError"

RAdd(a, b) == IF IsNaN(a) \/ IsNaN(b) THEN NaN
              ELSE LET g == Gcd(a[2], b[2])
                   IN  Norm(a[1] * (b[2] \div g) + b[1] * (a[2] \div g),
                            (a[2] \div g) * b[2])
RNeg(a)    == IF IsNaN(a) THEN NaN ELSE <<-a[1], a[2]>>
RSub(a, b) == RAdd(a, RNeg(b))
RMul(a, b) == IF IsNaN(a) \/ IsNaN(b) THEN NaN
              ELSE IF a[1] = 0 \/ b[1] = 0 THEN <<0, 1>>
              ELSE LET g1 == Gcd(IAbs(a[1]), b[2])
                       g2 == Gcd(IAbs(b[1]), a[2])
                   IN  Norm((a[1] \div g1) * (b[1] \div g2),
                            (a[2] \div g2) * (b[2] \div g1))
RDiv(a, b) == IF IsNaN(b) THEN NaN
              ELSE IF b[1] = 0 THEN ZeroDivisionError
              ELSE IF IsNaN(a) THEN NaN
              ELSE IF b[1] < 0 THEN RMul(a, <<-b[2], -b[1]>>)
              ELSE RMul(a, <<b[2], b[1]>>)
RAbs(a)    == IF IsNaN(a) THEN NaN ELSE <<IAbs(a[1]), a[2]>>

\* Comparisons: every comparison with NaN is false, as in IEEE 754.
RLt(a, b) ==
    /\ ~IsNaN(a) /\ ~IsNaN(b)
    /\ LET g == Gcd(a[2], b[2]) IN a[1] * (b[2] \div g) < b[1] * (a[2] \div g)
RLe(a, b) ==
    /\ ~IsNaN(a) /\ ~IsNaN(b)
    /\ LET g == Gcd(a[2], b[2]) IN a[1] * (b[2] \div g) <= b[1] * (a[2] \div g)
RGt(a, b) == RLt(b, a)
REq(a, b) == ~IsNaN(a) /\ ~IsNaN(b) /\ a = b
\* Python's min(a, b): b if b < a else a
RMin(a, b) == IF RLt(b, a) THEN b ELSE a

(***************************************************************************)
(* Python dicts as functions with a finite domain                          *)
(***************************************************************************)
EmptyDict == [k \in {} |-> Zero]
Put(d, k, v) == [x \in (DOMAIN d) \cup {k} |-> IF x = k THEN v ELSE d[x]]
Del(d, k) == [x \in (DOMAIN d) \ {k} |-> d[x]]
Get(d, k, default) == IF k \in DOMAIN d THEN d[k] ELSE default


(***************************************************************************)
(* Canonical transaction rows                                              *)
(*                                                                         *)
(* A Description is modelled by the set of the keywords its upper-cased    *)
(* text contains; `"K" in desc` is membership.                             *)
(***************************************************************************)
Tx(sym, act, qty, price, comm, amt, cur, desc) ==
    [Symbol |-> sym, Action |-> act, Quantity |-> qty, Price |-> price,
     Commission |-> comm, Amount |-> amt, Currency |-> cur,
     Description |-> desc, Date |-> 0]

\* 'RECEIVED' in desc and ('MERGER' in desc or 'ADJUSTMENT' in desc or 'REORG' in desc)
IsMergerReceipt(desc) ==
    "RECEIVED" \in desc /\
    ("MERGER" \in desc \/ "ADJUSTMENT" \in desc \/ "REORG" \in desc)

\* Mutant: SURRENDERED alone makes a merger surrender.
IsSurrenderedOnly(desc) == "SURRENDERED" \in desc

\* 'SURRENDERED' in desc and ('MERGER' in desc or 'ADJUSTMENT' in desc or 'REORG' in desc)
IsMergerSurrender(desc) ==
    "SURRENDERED" \in desc /\
    ("MERGER" \in desc \/ "ADJUSTMENT" \in desc \/ "REORG" \in desc)

\* 'WCP' in sym (substring test) over the symbols of the model
ContainsWCP(sym) == sym \in {"WCP", "WCP.TO"}

(***************************************************************************)
(* calculate_holdings: the loop body, one row                              *)
(*                                                                         *)
(* State of a run: lots (symbol -> list of lots), realized_pnl             *)
(* (symbol -> currency -> amount), merger_basis_carryover (symbol -> cost).*)
(***************************************************************************)
CHEmpty == [lots |-> EmptyDict, realized_pnl |-> EmptyDict,
            merger_basis_carryover |-> EmptyDict]

\* Mutant: the fallback cost leaves the commission out.
CHCostWithoutCommission(tx) ==
    IF tx.Amount # Zero /\ ~IsNaN(tx.Amount)
    THEN RAbs(tx.Amount)
    ELSE RMul(tx.Quantity, tx.Price)

\* cost = abs(Amount) if Amount != 0 and not isna(Amount) else qty*price + comm
CHCost(tx) ==
    IF tx.Amount # Zero /\ ~IsNaN(tx.Amount)
    THEN RAbs(tx.Amount)
    ELSE RAdd(RMul(tx.Quantity, tx.Price), tx.Commission)

\* Mutant: the commission is added to the proceeds instead of subtracted.
CHProceedsPlusCommission(tx) ==
    IF tx.Amount # Zero /\ ~IsNaN(tx.Amount)
    THEN tx.Amount
    ELSE RAdd(RMul(tx.Quantity, tx.Price), tx.Commission)

\* total_proceeds = Amount if Amount != 0 and not isna(Amount) else qty*price - comm
CHProceeds(tx) ==
    IF tx.Amount # Zero /\ ~IsNaN(tx.Amount)
    THEN tx.Amount
    ELSE RSub(RMul(tx.Quantity, tx.Price), tx.Commission)

CHBuy(st, tx) ==
    LET sym   == tx.Symbol
        lots0 == IF sym \in DOMAIN st.lots THEN st.lots ELSE Put(st.lots, sym, <<>>)
        desc  == tx.Description
        cost0 == CHCost(tx)
        carry == st.merger_basis_carryover
        popKey == IF ~IsMergerReceipt(desc) THEN "-"
                  ELSE IF sym \in DOMAIN carry THEN sym
                  ELSE IF ContainsWCP(sym) /\ "WCP" \in DOMAIN carry THEN "WCP"
                  ELSE "-"
        cost  == IF popKey = "-" THEN cost0 ELSE RAdd(cost0, carry[popKey])
        lot   == [TradeDate |-> tx.Date, Quantity |-> tx.Quantity, Cost |-> cost,
                  PurchasePrice |-> IF RGt(tx.Quantity, Zero)
                                    THEN RDiv(cost, tx.Quantity) ELSE tx.Price,
                  Commission |-> tx.Commission, Currency |-> tx.Currency,
                  Description |-> desc]
    IN  [lots |-> [lots0 EXCEPT ![sym] = Append(@, lot)],
         realized_pnl |-> st.realized_pnl,
         merger_basis_carryover |->
             IF popKey = "-" THEN carry ELSE Del(carry, popKey)]

\* share_of_proceeds = total_proceeds * (sold_qty / qty)
CHShareOfProceeds(total_proceeds, sold_qty, qty) ==
    RMul(total_proceeds, RDiv(sold_qty, qty))

\* Mutant: a partial sale is charged the whole cost of the lot.
CHWholeLotCost(lot, sold_qty) == lot.Cost

\* cost_basis = lot['Cost'] * (sold_qty / lot['Quantity'])
CHPartialCostBasis(lot, sold_qty) ==
    RMul(lot.Cost, RDiv(sold_qty, lot.Quantity))

\* Mutant: a merger surrender parks its cost and is also booked as realized P&L.
CHCreditSurrenderAsSale(st, sym, curr, is_merger_surrender, share_of_proceeds, cost_basis) ==
    LET st1 == IF is_merger_surrender
               THEN [st EXCEPT !.merger_basis_carryover =
                        Put(@, sym, RAdd(Get(@, sym, Zero), cost_basis))]
               ELSE st
    IN  [st1 EXCEPT !.realized_pnl[sym] =
            Put(@, curr, RAdd(Get(@, curr, Zero),
                              RSub(share_of_proceeds, cost_basis)))]

\* Credits one slice to merger carryover or to realized P&L.
CHCredit(st, sym, curr, is_merger_surrender, share_of_proceeds, cost_basis) ==
    IF is_merger_surrender
    THEN [st EXCEPT !.merger_basis_carryover =
             Put(@, sym, RAdd(Get(@, sym, Zero), cost_basis))]
    ELSE [st EXCEPT !.realized_pnl[sym] =
             Put(@, curr, RAdd(Get(@, curr, Zero),
                               RSub(share_of_proceeds, cost_basis)))]

RECURSIVE CHSellLoop(_, _, _, _, _, _, _)
CHSellLoop(st, sym, qty, curr, total_proceeds, is_merger_surrender, remaining_sell_qty) ==
    IF ~(RGt(remaining_sell_qty, Zero) /\ st.lots[sym] # <<>>) THEN st
    ELSE
      LET lot == Head(st.lots[sym]) IN
      IF RLe(lot.Quantity, remaining_sell_qty)
      THEN \* Full lot sold
        LET sold_qty == lot.Quantity
            cost_basis == lot.Cost
            share == CHShareOfProceeds(total_proceeds, sold_qty, qty)
            st1 == CHCredit(st, sym, curr, is_merger_surrender, share, cost_basis)
            st2 == [st1 EXCEPT !.lots[sym] = Tail(@)]
        IN  CHSellLoop(st2, sym, qty, curr, total_proceeds, is_merger_surrender,
                       RSub(remaining_sell_qty, sold_qty))
      ELSE \* Partial lot sold
        LET sold_qty == remaining_sell_qty
            cost_basis == CHPartialCostBasis(lot, sold_qty)
            share == CHShareOfProceeds(total_proceeds, sold_qty, qty)
            st1 == CHCredit(st, sym, curr, is_merger_surrender, share, cost_basis)
            st2 == [st1 EXCEPT !.lots[sym] =
                       <<[lot EXCEPT !.Quantity = RSub(@, sold_qty),
                                     !.Cost = RSub(@, cost_basis)]>> \o Tail(@)]
        IN  CHSellLoop(st2, sym, qty, curr, total_proceeds, is_merger_surrender,
                       Zero)

\* Mutant: a SELL that finds no lot books its proceeds as realized P&L.
CHSellBooksUnmatched(st, tx) ==
    LET sym == tx.Symbol
        no_lots == sym \notin DOMAIN st.lots \/ st.lots[sym] = <<>>
        of_sym == Get(st.realized_pnl, sym, EmptyDict)
    IN  IF no_lots
        THEN [st EXCEPT !.realized_pnl =
                Put(@, sym, Put(of_sym, tx.Currency,
                                RAdd(Get(of_sym, tx.Currency, Zero), CHProceeds(tx))))]
        ELSE CHSellLoop([st EXCEPT !.realized_pnl = Put(@, sym, of_sym)], sym,
                        tx.Quantity, tx.Currency, CHProceeds(tx),
                        IsMergerSurrender(tx.Description), tx.Quantity)

CHSell(st, tx) ==
    LET sym == tx.Symbol IN
    IF sym \notin DOMAIN st.lots THEN st   \* Sold without history
    ELSE
      LET st0 == IF sym \in DOMAIN st.realized_pnl THEN st
                 ELSE [st EXCEPT !.realized_pnl = Put(@, sym, EmptyDict)]
      IN  CHSellLoop(st0, sym, tx.Quantity, tx.Currency, CHProceeds(tx),
                     IsMergerSurrender(tx.Description), tx.Quantity)

RECURSIVE Reverse(_)
Reverse(q) == IF q = <<>> THEN <<>> ELSE Append(Reverse(Tail(q)), Head(q))

\* Mutant: a SELL matches the newest lot first (LIFO).
CHStepLifo(st, tx) ==
    IF tx.Action = "BUY" THEN CHBuy(st, tx)
    ELSE IF tx.Action = "SELL"
    THEN IF tx.Symbol \notin DOMAIN st.lots THEN st
         ELSE LET rev == [st EXCEPT !.lots[tx.Symbol] = Reverse(@)]
              IN  [CHSell(rev, tx) EXCEPT !.lots[tx.Symbol] = Reverse(@)]
    ELSE st

CHStep(st, tx) ==
    IF tx.Action = "BUY" THEN CHBuy(st, tx)
    ELSE IF tx.Action = "SELL" THEN CHSell(st, tx)
    ELSE st


(***************************************************************************)
(* compute_realized_fifo: the loop body, one row                           *)
(*                                                                         *)
(* State of a run: lots (symbol -> list of {qty, cost, currency}), result  *)
(* ((symbol, currency) -> {pnl, cost_basis}), merger_basis (symbol -> cost)*)
(***************************************************************************)
CRFEmpty == [lots |-> EmptyDict, result |-> EmptyDict, merger_basis |-> EmptyDict]

\* the lot-exhausted threshold 1e-6 of both loops
Epsilon == <<1, 1000000>>

\* Python's `x or 0` on a float: 0 stays 0, NaN is truthy and stays NaN
PyOr0(x) == IF x = Zero THEN Zero ELSE x

\* qty = float(Quantity) if notna(Quantity) else 0.0
CRFQty(tx) == IF IsNaN(tx.Quantity) THEN Zero ELSE tx.Quantity

\* cost = abs(amt) if amt and not isna(amt) and amt != 0 else qty*price + comm
CRFCost(tx) ==
    IF tx.Amount # Zero /\ ~IsNaN(tx.Amount)
    THEN RAbs(tx.Amount)
    ELSE RAdd(RMul(CRFQty(tx), PyOr0(tx.Price)), PyOr0(tx.Commission))

\* total_proceeds = amt if amt and not isna(amt) and amt != 0 else qty*price - comm
CRFProceeds(tx) ==
    IF tx.Amount # Zero /\ ~IsNaN(tx.Amount)
    THEN tx.Amount
    ELSE RSub(RMul(CRFQty(tx), PyOr0(tx.Price)), PyOr0(tx.Commission))

\* Mutant: a merger receipt adds the carryover to its cost and leaves it pending.
CRFBuyKeepsCarryover(st, tx) ==
    LET sym   == tx.Symbol
        lots0 == IF sym \in DOMAIN st.lots THEN st.lots ELSE Put(st.lots, sym, <<>>)
        isRec == IsMergerReceipt(tx.Description)
        cost  == IF isRec THEN RAdd(CRFCost(tx), Get(st.merger_basis, sym, Zero))
                 ELSE CRFCost(tx)
        lot   == [qty |-> CRFQty(tx), cost |-> cost, currency |-> tx.Currency]
    IN  [lots |-> [lots0 EXCEPT ![sym] = Append(@, lot)],
         result |-> st.result,
         merger_basis |-> st.merger_basis]

\* Mutant: every lot is booked in CAD.
CRFBuyInCad(st, tx) ==
    LET sym   == tx.Symbol
        lots0 == IF sym \in DOMAIN st.lots THEN st.lots ELSE Put(st.lots, sym, <<>>)
        isRec == IsMergerReceipt(tx.Description)
        cost  == IF isRec THEN RAdd(CRFCost(tx), Get(st.merger_basis, sym, Zero))
                 ELSE CRFCost(tx)
        lot   == [qty |-> CRFQty(tx), cost |-> cost, currency |-> "CAD"]
    IN  [lots |-> [lots0 EXCEPT ![sym] = Append(@, lot)],
         result |-> st.result,
         merger_basis |-> IF isRec THEN Del(st.merger_basis, sym)
                          ELSE st.merger_basis]

CRFBuy(st, tx) ==
    LET sym   == tx.Symbol
        lots0 == IF sym \in DOMAIN st.lots THEN st.lots ELSE Put(st.lots, sym, <<>>)
        isRec == IsMergerReceipt(tx.Description)
        cost  == IF isRec THEN RAdd(CRFCost(tx), Get(st.merger_basis, sym, Zero))
                 ELSE CRFCost(tx)
        lot   == [qty |-> CRFQty(tx), cost |-> cost, currency |-> tx.Currency]
    IN  [lots |-> [lots0 EXCEPT ![sym] = Append(@, lot)],
         result |-> st.result,
         merger_basis |-> IF isRec THEN Del(st.merger_basis, sym)
                          ELSE st.merger_basis]

NoPnl == [pnl |-> Zero, cost_basis |-> Zero]

\* cost_piece = lot["cost"] * (sold / lot["qty"])
CRFCostPiece(lot, sold) == RMul(lot.cost, RDiv(sold, lot.qty))

\* proceeds_piece = total_proceeds * frac, frac = sold / qty
CRFProceedsPiece(total_proceeds, sold, qty) == RMul(total_proceeds, RDiv(sold, qty))

RECURSIVE CRFSellLoop(_, _, _, _, _, _, _)
CRFSellLoop(st, sym, qty, curr, total_proceeds, is_merger, remaining) ==
    IF ~(RGt(remaining, Zero) /\ st.lots[sym] # <<>>) THEN st
    ELSE
      LET lot  == Head(st.lots[sym])
          sold == RMin(lot.qty, remaining)
          cost_piece == CRFCostPiece(lot, sold)
          proceeds_piece == CRFProceedsPiece(total_proceeds, sold, qty)
          key  == <<sym, curr>>
          st1  == IF is_merger
                  THEN [st EXCEPT !.merger_basis =
                           Put(@, sym, RAdd(Get(@, sym, Zero), cost_piece))]
                  ELSE [st EXCEPT !.result =
                           Put(@, key,
                               [pnl |-> RAdd(Get(@, key, NoPnl).pnl,
                                             RSub(proceeds_piece, cost_piece)),
                                cost_basis |-> RAdd(Get(@, key, NoPnl).cost_basis,
                                                    cost_piece)])]
          lot1 == [lot EXCEPT !.qty = RSub(@, sold), !.cost = RSub(@, cost_piece)]
          st2  == [st1 EXCEPT !.lots[sym] =
                      IF RLe(lot1.qty, Epsilon) THEN Tail(@)
                      ELSE <<lot1>> \o Tail(@)]
      IN  CRFSellLoop(st2, sym, qty, curr, total_proceeds, is_merger,
                      RSub(remaining, sold))

CRFSell(st, tx) ==
    IF tx.Symbol \notin DOMAIN st.lots THEN st
    ELSE CRFSellLoop(st, tx.Symbol, CRFQty(tx), tx.Currency, CRFProceeds(tx),
                     IsMergerSurrender(tx.Description), CRFQty(tx))

\* Mutant: every row that is not a SELL is queued as a purchase.
CRFStepQueuesTheRest(st, tx) ==
    IF RLe(CRFQty(tx), Zero) THEN st
    ELSE IF tx.Action = "SELL" THEN CRFSell(st, tx)
    ELSE CRFBuy(st, tx)

CRFStep(st, tx) ==
    IF RLe(CRFQty(tx), Zero) THEN st
    ELSE IF tx.Action = "BUY" THEN CRFBuy(st, tx)
    ELSE IF tx.Action = "SELL" THEN CRFSell(st, tx)
    ELSE st

(***************************************************************************)
(* _recalculate_realized_pnl_for_symbol: the FIFO loop, one DB row         *)
(*                                                                         *)
(* A DB row has the columns of backend.models.Transaction; a NULL number   *)
(* is the value None.  State of a run: lots (symbol -> list of lots),      *)
(* realized (currency -> {pnl, cost_basis}).                               *)
(***************************************************************************)
None == NaN

RecalcEmpty == [lots |-> EmptyDict, realized |-> EmptyDict]

\* str.upper() over the type strings of the model
Upper(s) ==
    CASE s \in {"buy", "Buy"}   -> "BUY"
      [] s \in {"sell", "Sell"} -> "SELL"
      [] s = "Merger"           -> "MERGER"
      [] s = "Reinvest"         -> "REINVEST"
      [] s = "Dividend"         -> "DIVIDEND"
      [] s = "Transf In"        -> "TRANSF IN"
      [] s = "Transfer In"      -> "TRANSFER IN"
      [] s = "Fee"              -> "FEE"
      [] OTHER                  -> s

\* _TYPE_NORMALIZE.get(db_tx.type, db_tx.type.upper())
TypeNormalize(type) ==
    CASE type \in {"Buy", "BUY", "DRIP", "Transf In", "Transfer In"} -> "BUY"
      [] type \in {"Sell", "SELL"}                                   -> "SELL"
      [] type \in {"Dividend", "DIV"}                                -> "DIV"
      [] OTHER                                                       -> Upper(type)

\* Python's `x or 0` on an Optional[float] column: None and 0 give 0
DbOr0(x) == IF x = None \/ x = Zero THEN Zero ELSE x

\* currency or ("CAD" if symbol.endswith(".TO") else "USD")
EndsWithTO(symbol) == symbol \in {"WCP.TO", "NEW.TO", "DLR.TO"}
DefaultCurrency(symbol) == IF EndsWithTO(symbol) THEN "CAD" ELSE "USD"
RecalcCurr(row, symbol) ==
    IF row.currency = "" THEN DefaultCurrency(symbol) ELSE row.currency

\* abs(amount) if amount else qty*(price or 0) + (commission or 0)
RecalcCost(row) ==
    IF DbOr0(row.amount) # Zero THEN RAbs(row.amount)
    ELSE RAdd(RMul(DbOr0(row.quantity), DbOr0(row.price)), DbOr0(row.commission))

\* amount if amount else qty*(price or 0) - (commission or 0)
RecalcProceeds(row) ==
    IF DbOr0(row.amount) # Zero THEN row.amount
    ELSE RSub(RMul(DbOr0(row.quantity), DbOr0(row.price)), DbOr0(row.commission))

\* cost_piece = lot["cost"] * (sold / lot["qty"])
RecalcCostPiece(lot, sold) == RMul(lot.cost, RDiv(sold, lot.qty))

\* proceeds_piece = total_proceeds * frac, frac = sold / qty
RecalcProceedsPiece(total_proceeds, sold, qty) ==
    RMul(total_proceeds, RDiv(sold, qty))

RECURSIVE RecalcSellLoop(_, _, _, _, _, _)
RecalcSellLoop(st, symbol, qty, key, total_proceeds, remaining) ==
    IF ~(RGt(remaining, Zero) /\ st.lots[symbol] # <<>>) THEN st
    ELSE
      LET lot  == Head(st.lots[symbol])
          sold == RMin(lot.qty, remaining)
          cost_piece == RecalcCostPiece(lot, sold)
          proceeds_piece == RecalcProceedsPiece(total_proceeds, sold, qty)
          st1  == [st EXCEPT !.realized =
                     Put(@, key,
                         [pnl |-> RAdd(Get(@, key, NoPnl).pnl,
                                       RSub(proceeds_piece, cost_piece)),
                          cost_basis |-> RAdd(Get(@, key, NoPnl).cost_basis,
                                              cost_piece)])]
          lot1 == [lot EXCEPT !.qty = RSub(@, sold), !.cost = RSub(@, cost_piece)]
          st2  == [st1 EXCEPT !.lots[symbol] =
                      IF RLe(lot1.qty, Epsilon) THEN Tail(@)
                      ELSE <<lot1>> \o Tail(@)]
      IN  RecalcSellLoop(st2, symbol, qty, key, total_proceeds,
                         RSub(remaining, sold))

RecalcStep(st, row, symbol) ==
    LET action == TypeNormalize(row.type)
        qty    == DbOr0(row.quantity)
        curr   == RecalcCurr(row, symbol)
    IN
    IF RLe(qty, Zero) THEN st
    ELSE IF action = "BUY"
    THEN LET lots0 == IF symbol \in DOMAIN st.lots THEN st.lots
                      ELSE Put(st.lots, symbol, <<>>)
             lot   == [qty |-> qty, cost |-> RecalcCost(row), currency |-> curr]
         IN  [st EXCEPT !.lots = [lots0 EXCEPT ![symbol] = Append(@, lot)]]
    ELSE IF action = "SELL"
    THEN IF symbol \notin DOMAIN st.lots \/ st.lots[symbol] = <<>> THEN st
         ELSE RecalcSellLoop(st, symbol, qty, curr, RecalcProceeds(row), qty)
    ELSE st


(***************************************************************************)
(* Inputs                                                                  *)
(***************************************************************************)
\* longest stream of rows fed to an engine run
MaxLen == 3

Symbols == {"OLD", "NEW"}

Plain == {}
Surrendered == {"SURRENDERED", "MERGER"}
Received == {"RECEIVED", "MERGER"}

Buys ==
    {Tx(s, "BUY", R(q), R(3), R(1), R(-6), "CAD", Plain) : s \in Symbols, q \in {1, 2}}
    \cup {Tx("OLD", "BUY", R(2), R(3), R(1), Zero, "CAD", Plain),
          Tx("OLD", "BUY", R(1), R(3), R(1), R(-6), "USD", Plain)}
    \cup {Tx(s, "BUY", R(1), Zero, Zero, Zero, "CAD", Received) : s \in Symbols}

Sells ==
    {Tx("OLD", "SELL", R(q), R(3), R(1), R(10), "CAD", Plain) : q \in {1, 2, 4}}
    \cup {Tx("NEW", "SELL", R(1), R(3), R(1), R(10), "CAD", Plain),
          Tx("OLD", "SELL", R(1), R(3), R(1), Zero, "CAD", Plain),
          Tx("OLD", "SELL", R(1), R(3), R(1), R(10), "USD", Plain)}
    \cup {Tx("OLD", "SELL", R(q), Zero, Zero, Zero, "CAD", Surrendered) : q \in {1, 2}}

NonPositive ==
    {Tx("OLD", "BUY", R(q), R(3), R(1), R(-6), "CAD", Plain) : q \in {0, -1}}
    \cup {Tx("OLD", "SELL", R(q), R(3), R(1), R(10), "CAD", Plain) : q \in {0, -1}}

Dividends ==
    {Tx("OLD", "DIV", Zero, Zero, Zero, R(5), "CAD", Plain),
     Tx("OLD", "DIV", R(1), R(3), Zero, R(5), "CAD", Plain),
     Tx("OLD", "OTHER", R(1), R(3), R(1), R(-6), "CAD", Received)}

\* rows with no price (NaN after pd.to_numeric) and no usable amount
MissingPrice ==
    {Tx("OLD", a, R(1), NaN, Zero, Zero, "CAD", Plain) : a \in {"BUY", "SELL"}}
    \cup {Tx("OLD", a, R(1), NaN, R(1), NaN, "CAD", Plain) : a \in {"BUY", "SELL"}}

BaseTx == Buys \cup Sells \cup NonPositive \cup Dividends

\* The two sample scenarios of the specification's section 8.
SampleFifo ==
    << Tx("OLD", "BUY", R(10), R(10), Zero, Zero, "CAD", Plain),
       Tx("OLD", "BUY", R(10), R(20), Zero, Zero, "CAD", Plain),
       Tx("OLD", "SELL", R(15), R(30), Zero, Zero, "CAD", Plain) >>

SampleMerger ==
    << Tx("OLD", "BUY", R(100), R(10), Zero, Zero, "CAD", Plain),
       Tx("OLD", "SELL", R(100), Zero, Zero, Zero, "CAD", Surrendered),
       Tx("NEW", "BUY", R(50), Zero, Zero, Zero, "CAD", Received) >>

Samples == {SampleFifo, SampleMerger}

\* rows without their Date stamp
Undated(h) == [i \in 1..Len(h) |-> [h[i] EXCEPT !.Date = 0]]

IsPrefix(h, s) == Len(h) <= Len(s) /\ SubSeq(s, 1, Len(h)) = h

\* The streams an engine run is fed: every stream of at most MaxLen rows of
\* BaseTx, and the sample scenarios.
InputOK(h) ==
    \/ Len(h) <= MaxLen /\ \A i \in 1..Len(h) : h[i] \in BaseTx
    \/ \E s \in Samples : IsPrefix(h, s)

AllTx == BaseTx \cup UNION {{s[i] : i \in 1..Len(s)} : s \in Samples}

\* the DB row of a canonical row (columns of backend.models.Transaction)
DbRow(tx, id) ==
    [id |-> id, symbol |-> tx.Symbol, date |-> tx.Date, type |-> tx.Action,
     quantity |-> tx.Quantity, price |-> tx.Price, commission |-> tx.Commission,
     amount |-> tx.Amount, currency |-> tx.Currency,
     description |-> tx.Description, source |-> "Manual"]

(***************************************************************************)
(* calculate_holdings: the holdings rows built from the remaining lots     *)
(***************************************************************************)
\* lot['Quantity'] > 0.0001
IsValidLot(lot) == RGt(lot.Quantity, <<1, 10000>>)

RECURSIVE SumField(_, _)
\* sum(lot[f] for lot in valid_lots), f one of "Quantity", "Cost", "Commission"
SumField(q, f) == IF q = <<>> THEN Zero ELSE RAdd(Head(q)[f], SumField(Tail(q), f))

\* dates.max()
MaxDate(q) == CHOOSE d \in {q[i].TradeDate : i \in 1..Len(q)} :
                  \A i \in 1..Len(q) : q[i].TradeDate <= d

\* symbol -> holdings row, for the symbols that keep a valid lot
CHHoldings(st) ==
    LET valid(sym) == SelectSeq(st.lots[sym], IsValidLot)
        kept == {sym \in DOMAIN st.lots : valid(sym) # <<>>}
    IN  [sym \in kept |->
           LET total_quantity == SumField(valid(sym), "Quantity")
               total_cost == SumField(valid(sym), "Cost")
           IN  [Symbol |-> sym,
                Quantity |-> total_quantity,
                PurchasePrice |-> IF RGt(total_quantity, Zero)
                                  THEN RDiv(total_cost, total_quantity) ELSE Zero,
                TradeDate |-> MaxDate(valid(sym)),
                Commission |-> SumField(valid(sym), "Commission"),
                Currency |-> valid(sym)[1].Currency]]

\* return pd.DataFrame(rows), realized_pnl
CHReturn(st) == [holdings |-> CHHoldings(st), realized_pnl |-> st.realized_pnl]

\* return result
CRFReturn(st) == [result |-> st.result]

(***************************************************************************)
(* Ordering of the rows before an engine consumes them                     *)
(***************************************************************************)
\* Mutant: the merger test is dropped, a surrender ranks as any other SELL.
get_action_rank_no_merger(row) ==
    IF row.Action = "BUY" THEN 1
    ELSE IF row.Action = "SELL" THEN 2
    ELSE IF row.Action = "DIV" THEN 3
    ELSE 99

\* load_all_transactions.get_action_rank
get_action_rank(row) ==
    LET desc == row.Description
        is_merger == "MERGER" \in desc \/ "ADJUSTMENT" \in desc \/ "REORG" \in desc
    IN  IF row.Action = "SELL" /\ is_merger /\ "SURRENDERED" \in desc THEN 0
        ELSE IF row.Action = "BUY" THEN 1
        ELSE IF row.Action = "SELL" THEN 2
        ELSE IF row.Action = "DIV" THEN 3
        ELSE 99

\* migrate.rank
rank(row) == IF row.Action = "BUY" THEN 0 ELSE IF row.Action = "SELL" THEN 1 ELSE 2

Before(k1, k2) == k1[1] < k2[1] \/ (k1[1] = k2[1] /\ k1[2] < k2[2])

RECURSIVE InsertByKey(_, _, _)
\* puts x after every element of the sorted keyed list whose key is not larger
InsertByKey(x, kx, sorted) ==
    IF sorted = <<>> THEN << <<x, kx>> >>
    ELSE IF Before(kx, Head(sorted)[2]) THEN << <<x, kx>> >> \o sorted
    ELSE << Head(sorted) >> \o InsertByKey(x, kx, Tail(sorted))

RECURSIVE SortKeyed(_)
\* a stable sort of a list of <<row, key>> pairs by key
SortKeyed(pairs) ==
    IF pairs = <<>> THEN <<>>
    ELSE InsertByKey(pairs[Len(pairs)][1], pairs[Len(pairs)][2],
                     SortKeyed(SubSeq(pairs, 1, Len(pairs) - 1)))

Rows(pairs) == [i \in 1..Len(pairs) |-> pairs[i][1]]

NonEmptySymbol(row) == row.Symbol # ""

\* df['Action_Rank'] = ...; df.sort_values(['Date', 'Action_Rank']); drop empty symbols
LoadAllTransactionsSort(df) ==
    SelectSeq(Rows(SortKeyed([i \in 1..Len(df) |->
                  <<df[i], <<df[i].Date, get_action_rank(df[i])>> >>])),
              NonEmptySymbol)

\* df = df[Symbol != ""]; df["_rank"] = ...; df.sort_values(["Date", "_rank"])
MigrateSort(df) ==
    LET kept == SelectSeq(df, NonEmptySymbol)
    IN  Rows(SortKeyed([i \in 1..Len(kept) |->
                  <<kept[i], <<kept[i].Date, rank(kept[i])>> >>]))

\* the rows of load_portfolio_from_db: select(Transaction), no ORDER BY;
\* Action = TYPE_NORMALIZE.get(tx.type, tx.type.upper())
LoadPortfolioFromDbRows(table) ==
    [i \in 1..Len(table) |-> [table[i] EXCEPT !.Action = TypeNormalize(@)]]

(***************************************************************************)
(* _recalculate_realized_pnl_for_symbol on the database                    *)
(*                                                                         *)
(* transaction_table and realizedpnl_table are the rows of the two tables  *)
(* in insertion order.  ORDER BY date leaves the order of equal dates to   *)
(* the database: tie_order says whether it returns them in insertion order *)
(* or in the reverse of it.                                                *)
(***************************************************************************)
_NORBERT_GAMBIT_EXCLUDE == {"DLR", "DLR.TO"}

\* select(DBTransaction).where(symbol == symbol).order_by(date)
RecalcQuery(transaction_table, sym, tie_order) ==
    LET of_symbol(row) == row.symbol = sym
        rows == SelectSeq(transaction_table, of_symbol)
        scan == IF tie_order = "insertion" THEN rows ELSE Reverse(rows)
    IN  Rows(SortKeyed([i \in 1..Len(scan) |-> <<scan[i], <<scan[i].date, 0>> >>]))

RECURSIVE RecalcFold(_, _, _)
\* for db_tx in db_txs: ...
RecalcFold(st, db_txs, sym) ==
    IF db_txs = <<>> THEN st
    ELSE RecalcFold(RecalcStep(st, Head(db_txs), sym), Tail(db_txs), sym)

RECURSIVE RecalcKeyOrder(_, _, _, _)
\* the keys of `realized` in the order the loop inserted them (realized.items())
RecalcKeyOrder(st, db_txs, sym, keys) ==
    IF db_txs = <<>> THEN keys
    ELSE LET after == RecalcStep(st, Head(db_txs), sym)
             new   == DOMAIN after.realized \ DOMAIN st.realized
         IN  RecalcKeyOrder(after, Tail(db_txs), sym,
                            IF new = {} THEN keys
                            ELSE Append(keys, CHOOSE k \in new : TRUE))

\* for curr, vals in realized.items(): the RealizedPnL rows added
RecalcNewRows(realized, keys, sym) ==
    LET keep(curr) == ~IsNaN(realized[curr].pnl) /\ realized[curr].cost_basis # Zero
        order == SelectSeq(keys, keep)
    IN  [i \in 1..Len(order) |->
            [symbol |-> sym, currency |-> order[i],
             pnl_amount |-> realized[order[i]].pnl,
             cost_basis_sold |-> realized[order[i]].cost_basis,
             broker |-> "Manual", account_type |-> "Manual",
             source |-> "db_transaction"]]

(***************************************************************************)
(* What an engine reports about a row besides updating its locals          *)
(***************************************************************************)
\* the loop of calculate_holdings holds no print, logging call or raise, and
\* its return value has no error field: a row is never reported
CHReported(st, tx) == {}

\* the same for the loop of compute_realized_fifo
CRFReported(st, tx) == {}

(***************************************************************************)
(* Inputs of the loaders and of the REST handlers                          *)
(***************************************************************************)
\* longest list of rows handed to a loader
MaxRows == 3

\* number of add_transaction requests
MaxTx == 3

Dated(tx, d) == [tx EXCEPT !.Date = d]

LoadRows ==
    {Dated(tx, d) :
        tx \in {Tx("OLD", "BUY", R(2), R(3), R(1), R(-6), "CAD", Plain),
                Tx("OLD", "SELL", R(1), R(3), R(1), R(10), "CAD", Plain),
                Tx("OLD", "SELL", R(1), Zero, Zero, Zero, "CAD", Surrendered),
                Tx("OLD", "DIV", Zero, Zero, Zero, R(5), "CAD", Plain)},
        d \in {1, 2}}
    \cup {Dated(Tx("NEW", "BUY", R(1), R(3), R(1), R(-6), "CAD", Plain), 1),
          Dated(Tx("", "BUY", R(1), R(3), R(1), R(-6), "CAD", Plain), 1)}

LoadInputs == UNION {[1..n -> LoadRows] : n \in 0..MaxRows}

\* the request body of POST /api/transactions (class Transaction)
ApiBody(sym, type, date) ==
    [Symbol |-> sym, Purchase_Price |-> R(3), Quantity |-> R(1),
     Commission |-> R(1), Trade_Date |-> date, Transaction_Type |-> type,
     Comment |-> Plain]

ApiTx ==
    {ApiBody("OLD", "Buy", 1), ApiBody("OLD", "Sell", 2), ApiBody("DLR.TO", "Sell", 1)}

ApiSymbols == {tx.Symbol : tx \in ApiTx}

(***************************************************************************)
(* State                                                                   *)
(*   engine   the entry point exercised: one of the three FIFO engines, or *)
(*            "api" for the REST handlers                                  *)
(*   symbol   the argument of _recalculate_realized_pnl_for_symbol         *)
(*   run      the locals of the engine call in progress (lots, realized    *)
(*            P&L, carryover)                                              *)
(*   hist     the rows the loop has consumed so far, in order              *)
(*   before   `run` as it was before the last row of hist (history)        *)
(*   call     1 during the first call of the engine, 2 after a second call *)
(*   first    the rows and the return value of the first call              *)
(*   loader   the code that orders the rows for the engine ("-": none)     *)
(*   df_tx    the rows handed to the loader, then the rows still to come   *)
(*   pc       "load" before the loader has run, "iter" after               *)
(*   transaction_table, realizedpnl_table, holding_table                   *)
(*            the rows of the database tables, in insertion order          *)
(*   next_id  of each table, the next value of the sequence of its primary *)
(*            key (PostgreSQL), or RowId when there is none (SQLite)       *)
(*   holding_id, realizedpnl_id                                            *)
(*            the id column of the Holding and of the RealizedPnL rows     *)
(*            (a Transaction row holds its id)                             *)
(*   tie_order  how the database orders rows of equal date                 *)
(*   portfolio  the holdings rows load_portfolio_from_db returned          *)
(*   requests   the REST requests in progress: the handler, the statement  *)
(*            it comes to next, the objects it holds and its symbol        *)
(*   migration  the migration script in progress (one at a time), the      *)
(*            statement it comes to next and the rows it holds             *)
(*   portfolio_cache  the entries of the cache of load_portfolio_from_db   *)
(***************************************************************************)
VARIABLES engine, symbol, run, hist, before, call, first, loader, df_tx, pc,
          transaction_table, realizedpnl_table, holding_table, next_id,
          holding_id, realizedpnl_id, tie_order, portfolio, requests, migration,
          portfolio_cache

vars == <<engine, symbol, run, hist, before, call, first, loader, df_tx, pc,
          transaction_table, realizedpnl_table, holding_table, next_id,
          holding_id, realizedpnl_id, tie_order, portfolio, requests, migration,
          portfolio_cache>>

engineVars == <<run, hist, before, call, first>>
loadVars == <<loader, df_tx, pc>>
dbVars == <<transaction_table, realizedpnl_table, holding_table, next_id,
            holding_id, realizedpnl_id>>
procVars == <<requests, migration, portfolio_cache>>
\* what the REST handlers and the migration scripts leave alone
otherVars == <<engine, symbol, engineVars, loadVars, tie_order, portfolio,
               portfolio_cache>>

Engines == {"calculate_holdings", "compute_realized_fifo", "recalculate"}

\* the locals each engine initialises on entry
Fresh(e) ==
    CASE e = "calculate_holdings"    -> CHEmpty
      [] e = "compute_realized_fifo" -> CRFEmpty
      [] OTHER                       -> RecalcEmpty

\* Mutant: lots is not assigned on entry, the lots of the call before stay.
CHEnterKeepLots(previous) ==
    [previous EXCEPT !.realized_pnl = EmptyDict,
                     !.merger_basis_carryover = EmptyDict]

\* the three assignments on entry of calculate_holdings: lots = {};
\* realized_pnl = {}; merger_basis_carryover = {}; `previous` is what the
\* names held when the call before returned
CHEnter(previous) ==
    [previous EXCEPT !.lots = EmptyDict,
                     !.realized_pnl = EmptyDict,
                     !.merger_basis_carryover = EmptyDict]

\* the three assignments on entry of compute_realized_fifo: lots = {};
\* result = {}; merger_basis = {}
CRFEnter(previous) ==
    [previous EXCEPT !.lots = EmptyDict,
                     !.result = EmptyDict,
                     !.merger_basis = EmptyDict]

\* what a call returns
Return(e, st) ==
    CASE e = "calculate_holdings"    -> CHReturn(st)
      [] e = "compute_realized_fifo" -> CRFReturn(st)
      [] OTHER                       -> st.realized

NoLoad ==
    /\ loader = "-"
    /\ df_tx = <<>>
    /\ pc = "iter"

Tables == {"transaction", "holding", "realizedpnl"}

\* next_id of a table whose ids come without a sequence: SQLite (the default
\* DATABASE_URL) gives a new row the id max(id) + 1
RowId == 0

\* next_id of a new database: SQLite, or PostgreSQL (a sequence per table)
NoSequence == [t \in Tables |-> RowId]
FirstIds == [t \in Tables |-> 1]

EmptyDb ==
    /\ transaction_table = <<>>
    /\ realizedpnl_table = <<>>
    /\ holding_table = <<>>
    /\ holding_id = <<>>
    /\ realizedpnl_id = <<>>
    /\ next_id = NoSequence

\* no script in progress; of a script in progress: the rows it has read and
\* not yet handled, the ids of the rows it selected, the rows it has
\* inserted and not committed, and the rows it has added to its session
NoMigration ==
    [script |-> "-", at |-> "-", rows |-> <<>>, existing |-> {}, pending |-> <<>>,
     added |-> <<>>]

\* no request and no script in progress, nothing cached
NoProcess ==
    /\ requests = EmptyBag
    /\ migration = NoMigration
    /\ portfolio_cache = <<>>

FirstCall ==
    /\ run = Fresh(engine)
    /\ hist = <<>>
    /\ before = Fresh(engine)
    /\ call = 1
    /\ first = [rows |-> <<>>, returned |-> Return(engine, Fresh(engine))]

\* an engine is called on a stream of rows
Init ==
    /\ engine \in Engines
    /\ symbol \in (IF engine = "recalculate" THEN Symbols ELSE {"-"})
    /\ FirstCall
    /\ NoLoad
    /\ EmptyDb
    /\ tie_order = "insertion"
    /\ portfolio = <<>>
    /\ NoProcess

StepOf(st, tx, pos) ==
    CASE engine = "calculate_holdings"    -> CHStep(st, tx)
      [] engine = "compute_realized_fifo" -> CRFStep(st, tx)
      [] OTHER                            -> RecalcStep(st, DbRow(tx, pos), symbol)

RECURSIVE RunFrom(_, _, _)
\* the loop of a call that starts with locals st, over rows h from position pos
RunFrom(st, h, pos) ==
    IF pos > Len(h) THEN st ELSE RunFrom(StepOf(st, h[pos], pos), h, pos + 1)

RunOf(h) == RunFrom(Fresh(engine), h, 1)

\* the next row of the DataFrame, dated by its position in the stream
NextRow(tx) == [tx EXCEPT !.Date = Len(hist) + 1]

Consume(tx) ==
    /\ loader = "-"
    /\ call = 1
    /\ InputOK(Append(Undated(hist), tx))
    /\ hist' = Append(hist, NextRow(tx))
    /\ before' = run
    /\ run' = StepOf(run, NextRow(tx), Len(hist) + 1)
    /\ UNCHANGED <<engine, symbol, call, first, loadVars, dbVars, tie_order, portfolio, procVars>>

\* for _, tx in df_tx.iterrows(): one iteration of calculate_holdings
CalculateHoldingsRow ==
    /\ engine = "calculate_holdings"
    /\ \E tx \in AllTx : Consume(tx)

\* for _, tx in df_tx.iterrows(): one iteration of compute_realized_fifo
ComputeRealizedFifoRow ==
    /\ engine = "compute_realized_fifo"
    /\ \E tx \in AllTx : Consume(tx)

\* for db_tx in db_txs: one iteration of _recalculate_realized_pnl_for_symbol
RecalculateRow ==
    /\ engine = "recalculate"
    /\ \E tx \in AllTx : tx.Symbol = symbol /\ Consume(tx)

Next == CalculateHoldingsRow \/ ComputeRealizedFifoRow \/ RecalculateRow

Spec == Init /\ [][Next]_vars

(***************************************************************************)
(* The engines on streams that also hold rows without a price              *)
(***************************************************************************)
\* one iteration of an engine's loop; the row may lack price and amount
RowWithMissingPrice ==
    /\ loader = "-"
    /\ call = 1
    /\ Len(hist) < MaxLen
    /\ \E tx \in Buys \cup Sells \cup MissingPrice :
         /\ engine = "recalculate" => tx.Symbol = symbol
         /\ hist' = Append(hist, NextRow(tx))
         /\ before' = run
         /\ run' = StepOf(run, NextRow(tx), Len(hist) + 1)
    /\ UNCHANGED <<engine, symbol, call, first, loadVars, dbVars, tie_order, portfolio, procVars>>

SpecMissingPrice == Init /\ [][RowWithMissingPrice]_vars

(***************************************************************************)
(* The engines on streams that also hold quantities around the 1e-6        *)
(* threshold                                                               *)
(***************************************************************************)
\* 5e-7, a positive quantity below 1e-6 (not dyadic: the code's floats carry
\* it with a relative error of 1e-16, which moves no comparison made here)
Dust == <<1, 2000000>>

\* a whole share bought, a dust of a share received free of cost, all but a
\* dust of a share given up for nothing, and a merger of the symbol into itself
DustTx ==
    {Tx("OLD", "BUY", R(1), R(3), R(1), R(-6), "CAD", Plain),
     Tx("OLD", "BUY", Dust, Zero, Zero, Zero, "CAD", Plain),
     Tx("OLD", "SELL", RSub(R(1), Dust), Zero, Zero, Zero, "CAD", Plain),
     Tx("OLD", "SELL", R(1), Zero, Zero, Zero, "CAD", Surrendered),
     Tx("OLD", "BUY", R(1), Zero, Zero, Zero, "CAD", Received)}

\* one iteration of an engine's loop; the row may trade all but a dust of a lot
RowWithDust ==
    /\ loader = "-"
    /\ call = 1
    /\ Len(hist) < MaxLen
    /\ \E tx \in DustTx \cup {t \in Buys \cup Sells : t.Symbol = "NEW"} :
         /\ engine = "recalculate" => tx.Symbol = symbol
         /\ hist' = Append(hist, NextRow(tx))
         /\ before' = run
         /\ run' = StepOf(run, NextRow(tx), Len(hist) + 1)
    /\ UNCHANGED <<engine, symbol, call, first, loadVars, dbVars, tie_order, portfolio, procVars>>

SpecDust == Init /\ [][RowWithDust]_vars

\* the streams of Spec and those of SpecDust
NextWithDust == Next \/ RowWithDust

SpecWithDust == Init /\ [][NextWithDust]_vars

(***************************************************************************)
(* The engines on rows whose descriptions hold any mix of the keywords     *)
(***************************************************************************)
Descriptions ==
    {{}, {"SURRENDERED"}, {"RECEIVED"}, {"MERGER"},
     {"SURRENDERED", "MERGER"}, {"RECEIVED", "MERGER"},
     {"SURRENDERED", "REORG"}, {"RECEIVED", "ADJUSTMENT"},
     {"SURRENDERED", "RECEIVED", "ADJUSTMENT"}}

DescribedTx ==
    {Tx("OLD", "BUY", R(2), R(3), R(1), R(-6), "CAD", d) : d \in Descriptions}
    \cup {Tx("OLD", "SELL", R(1), R(3), R(1), R(10), "CAD", d) : d \in Descriptions}

\* one iteration of an engine's loop on a row of DescribedTx
RowWithDescription ==
    /\ loader = "-"
    /\ call = 1
    /\ Len(hist) < MaxLen
    /\ \E tx \in DescribedTx :
         /\ engine = "recalculate" => tx.Symbol = symbol
         /\ hist' = Append(hist, NextRow(tx))
         /\ before' = run
         /\ run' = StepOf(run, NextRow(tx), Len(hist) + 1)
    /\ UNCHANGED <<engine, symbol, call, first, loadVars, dbVars, tie_order, portfolio, procVars>>

SpecDescriptions == Init /\ [][RowWithDescription]_vars

(***************************************************************************)
(* The engines on rows of the two symbols the WCP branch of the merger     *)
(* receipt tells apart: "WCP" and a symbol that contains it                *)
(***************************************************************************)
WcpSymbols == {"WCP", "WCP.TO"}

WcpTx ==
    UNION {{Tx(s, "BUY", R(2), R(3), R(1), R(-6), "CAD", Plain),
            Tx(s, "BUY", R(1), Zero, Zero, Zero, "CAD", Received),
            Tx(s, "SELL", R(1), Zero, Zero, Zero, "CAD", Surrendered),
            Tx(s, "SELL", R(1), R(3), R(1), R(10), "CAD", Plain)} : s \in WcpSymbols}

\* one iteration of calculate_holdings or compute_realized_fifo on a row of WcpTx
RowOfWcp ==
    /\ loader = "-"
    /\ call = 1
    /\ engine \in {"calculate_holdings", "compute_realized_fifo"}
    /\ Len(hist) < MaxLen
    /\ \E tx \in WcpTx :
         /\ hist' = Append(hist, NextRow(tx))
         /\ before' = run
         /\ run' = StepOf(run, NextRow(tx), Len(hist) + 1)
    /\ UNCHANGED <<engine, symbol, call, first, loadVars, dbVars, tie_order, portfolio, procVars>>

SpecWcp == Init /\ [][RowOfWcp]_vars

(***************************************************************************)
(* clean_symbol                                                            *)
(*                                                                         *)
(* A symbol string is modelled by its stem, the suffixes written after it  *)
(* in order (".TO", " UNITS", " UNIT", " ETF"), whether it is written in   *)
(* lower case and whether blanks surround it.  A description is the empty  *)
(* string, or the set of the keys of TD_SYMBOL_MAP its upper-cased text    *)
(* contains (a missing description, NaN, contains none and is not empty).  *)
(***************************************************************************)
Text(stem, suffixes, lower, padded) ==
    [stem |-> stem, suffixes |-> suffixes, lower |-> lower, padded |-> padded]

\* an upper-case string without surrounding blanks
Ticker(stem, suffixes) == Text(stem, suffixes, FALSE, FALSE)

EmptyText == Ticker("", <<>>)

\* the key -> value pairs of TD_SYMBOL_MAP, in the order of the dict
TD_SYMBOL_MAP ==
    << <<"VANGUARD 500", Ticker("VOO", <<>>)>>,
       <<"MICROSOFT", Ticker("MSFT", <<>>)>>,
       <<"BERKSHIRE", Ticker("BRK-B", <<>>)>>,
       <<"TESLA", Ticker("TSLA", <<>>)>>,
       <<"ALIBABA", Ticker("BABA", <<>>)>>,
       <<"VANGUARD FTSE CANADIAN HIGH", Ticker("VDY", <<".TO">>)>>,
       <<"ISHR S&PTSX CMP HI DV ETF", Ticker("XEI", <<".TO">>)>>,
       <<"ISHARES CORE MSCI EAFE", Ticker("XEF", <<".TO">>)>>,
       <<"ISHARES CORE MSCI EM", Ticker("XEC", <<".TO">>)>>,
       <<"ISHARES S&P/TSX 60", Ticker("XIU", <<".TO">>)>>,
       <<"CANADIAN IMPERIAL", Ticker("CM", <<".TO">>)>>,
       <<"TORONTO-DOMINION", Ticker("TD", <<".TO">>)>>,
       <<"WHITECAP RESOURCES", Ticker("WCP", <<".TO">>)>>,
       <<"AIR CANADA", Ticker("AC", <<".TO">>)>>,
       <<"VEREN INC", Ticker("WCP", <<".TO">>)>> >>

\* the description "" (falsy in Python), and a description that is not empty
EmptyString == [empty |-> TRUE, keys |-> {}]
Containing(keys) == [empty |-> FALSE, keys |-> keys]

RECURSIVE FirstMatch(_, _)
\* for k, v in TD_SYMBOL_MAP.items(): if k in desc_upper: return v
FirstMatch(keys, i) ==
    IF i > Len(TD_SYMBOL_MAP) THEN EmptyText
    ELSE IF TD_SYMBOL_MAP[i][1] \in keys THEN TD_SYMBOL_MAP[i][2]
    ELSE FirstMatch(keys, i + 1)

extract_td_symbol(desc) == FirstMatch(desc.keys, 1)

CANADIAN_TICKERS ==
    {"VDY", "XEI", "XEF", "XEC", "XIU", "CM", "TD", "WCP",
     "CASH", "DLR", "XRE", "VCN", "VEE", "VIU", "VUN", "VAV"}

\* len() of the stems and suffixes of the model
StemLen(stem) ==
    CASE stem = "" -> 0
      [] stem \in {"AC", "CM", "TD"} -> 2
      [] stem \in {"BRK-B"} -> 5
      [] stem \in {"CASH", "AAPL", "MSFT", "TSLA", "BABA"} -> 4
      [] stem = "VEREN INC COM" -> 13
      [] OTHER -> 3

SuffixLen(x) ==
    CASE x = ".TO" -> 3 [] x = " ETF" -> 4 [] x = " UNIT" -> 5 [] OTHER -> 6

RECURSIVE SuffixesLen(_)
SuffixesLen(q) == IF q = <<>> THEN 0 ELSE SuffixLen(Head(q)) + SuffixesLen(Tail(q))

TextLen(s) == StemLen(s.stem) + SuffixesLen(s.suffixes)

\* str(symbol).strip().upper()
StripUpper(raw) == Ticker(raw.stem, raw.suffixes)

\* re.sub(pattern + '$', '', s) for a pattern that matches the suffixes in `which`
SubLast(s, which) ==
    IF s.suffixes # <<>> /\ s.suffixes[Len(s.suffixes)] \in which
    THEN [s EXCEPT !.suffixes = SubSeq(@, 1, Len(@) - 1)]
    ELSE s

clean_symbol(raw, description) ==
    LET s0 == StripUpper(raw)
        s1 == IF (s0 = EmptyText \/ s0 = Ticker("NAN", <<>>) \/ TextLen(s0) > 10)
                 /\ description # EmptyString
              THEN extract_td_symbol(description) ELSE s0
        s2 == SubLast(s1, {" UNITS", " UNIT"})
        s3 == SubLast(s2, {" ETF"})
        s4 == SubLast(s3, {".TO"})
    IN  IF s4.suffixes = <<>> /\ s4.stem \in CANADIAN_TICKERS
        THEN Ticker(s4.stem, <<".TO">>) ELSE s4

SymbolTexts ==
    {Text(stem, suffixes, lower, padded) :
        stem \in {"DLR", "XIU", "AC", "AAPL"},
        suffixes \in {<<>>, <<".TO">>, <<" UNITS">>, <<" UNIT">>, <<" ETF">>,
                      <<".TO", " UNITS">>, <<" ETF", " UNITS">>, <<".TO", " ETF">>},
        lower \in BOOLEAN, padded \in BOOLEAN}
    \cup {Text(stem, <<>>, lower, padded) :
            stem \in {"", "NAN", "VEREN INC COM"},
            lower \in BOOLEAN, padded \in BOOLEAN}

DescriptionTexts ==
    {EmptyString}
    \cup {Containing(keys) :
            keys \in {{}, {"AIR CANADA"}, {"VANGUARD FTSE CANADIAN HIGH"},
                      {"BERKSHIRE"}, {"VEREN INC"}, {"VANGUARD 500", "BERKSHIRE"}}}

\* df.apply(lambda row: clean_symbol(row['Symbol'], row['Source'], row.get('Description', '')))
\* on one row: df_tx holds the row, hist the symbol returned for it
InitClean ==
    /\ engine = "clean_symbol"
    /\ symbol = "-"
    /\ run = CHEmpty
    /\ before = CHEmpty
    /\ hist = <<>>
    /\ call = 1
    /\ first = [rows |-> <<>>, returned |-> <<>>]
    /\ loader = "load_all_transactions"
    /\ \E sym \in SymbolTexts, d \in DescriptionTexts :
          df_tx = <<[Symbol |-> sym, Description |-> d]>>
    /\ pc = "load"
    /\ EmptyDb
    /\ tie_order = "insertion"
    /\ portfolio = <<>>
    /\ NoProcess

CleanSymbol ==
    /\ engine = "clean_symbol"
    /\ pc = "load"
    /\ hist' = <<clean_symbol(df_tx[1].Symbol, df_tx[1].Description)>>
    /\ pc' = "iter"
    /\ UNCHANGED <<engine, symbol, run, before, call, first, loader, df_tx, dbVars, tie_order, portfolio, procVars>>

SpecClean == InitClean /\ [][CleanSymbol]_vars

(***************************************************************************)
(* The paths that turn a broker's row or a stored row into the row the     *)
(* ledger reads                                                            *)
(*                                                                         *)
(* df_tx holds the rows as the path reads them (Action is the broker's     *)
(* Transaction Type / Activity / Action, or Transaction.type; Symbol "" is *)
(* an empty cell, which pandas reads as NaN; Description is the set of the *)
(* keywords its upper-cased text contains), hist the rows the engine       *)
(* consumed.  The rows read are dated, so dropna(subset=['Date']) keeps    *)
(* them, and they name their currency.                                     *)
(***************************************************************************)
\* longest stream of rows read by a path
MaxRaw == 2

\* df[df['Transaction Type'].isin([...])]
CibcKept == {"Buy", "Sell", "Dividend", "Reinvest", "Merger", "Transf In"}

\* mapping.get(t_type, 'OTHER')
CibcMapping(t_type) ==
    CASE t_type \in {"Buy", "Reinvest", "Transf In"}        -> "BUY"
      [] t_type \in {"Sell", "Transf Out", "Sell (short)"} -> "SELL"
      [] t_type = "Dividend"                               -> "DIV"
      [] OTHER                                             -> "OTHER"

get_cibc_action(row) ==
    IF row.Action = "Merger" /\ "SURRENDERED" \in row.Description THEN "SELL"
    ELSE IF row.Action = "Merger" /\ "RECEIVED" \in row.Description THEN "BUY"
    ELSE CibcMapping(row.Action)

get_rbc_action(row) ==
    IF "REINV" \in row.Description \/ "REI -" \in row.Description THEN "BUY"
    ELSE CASE row.Action = "Buy"  -> "BUY"
           [] row.Action = "Sell" -> "SELL"
           [] row.Action \in {"Dividends", "Distribution"} -> "DIV"
           [] OTHER -> "OTHER"

\* the float NaN that Series.map leaves for a key missing from the map
NoAction == "nan"

\* df['Action'].map(action_map)
action_map(act) ==
    CASE act \in {"BUY", "DRIP"}   -> "BUY"
      [] act = "SELL"              -> "SELL"
      [] act \in {"DIV", "TXPDDV"} -> "DIV"
      [] OTHER                     -> NoAction

ParserPaths == {"parse_cibc", "parse_rbc", "parse_td"}
DbPaths == {"load_portfolio_from_db", "_recalculate_realized_pnl_for_symbol"}

\* re.search(r'BOOK VALUE\s+([\d,.]+)', desc): the description keyword
\* "BOOK VALUE 6" stands for a text that states the book value 6, the keyword
\* "BOOK VALUE" for one with the words and no number after them
BookValues == {"BOOK VALUE 6"}
BookValueOf(keyword) == R(6)

\* get_amount of parse_cibc
get_amount(row) ==
    LET stated == row.Description \cap BookValues
        val    == BookValueOf(CHOOSE k \in stated : TRUE)
    IN  IF (row.Amount = Zero \/ IsNaN(row.Amount)) /\ stated # {}
        THEN IF row.Action \in {"Buy", "Transf In", "Merger"} THEN RNeg(val) ELSE val
        ELSE row.Amount

\* Series.fillna(0)
FillNa0(x) == IF IsNaN(x) THEN Zero ELSE x

\* the string a cleaned symbol is
Spelled(s) ==
    IF s.suffixes = <<>> THEN s.stem
    ELSE CASE s.stem = "VDY" -> "VDY.TO" [] s.stem = "XEI" -> "XEI.TO"
           [] s.stem = "XEF" -> "XEF.TO" [] s.stem = "XEC" -> "XEC.TO"
           [] s.stem = "XIU" -> "XIU.TO" [] s.stem = "CM"  -> "CM.TO"
           [] s.stem = "TD"  -> "TD.TO"  [] s.stem = "WCP" -> "WCP.TO"
           [] s.stem = "AC"  -> "AC.TO"

\* load_all_transactions on a parsed row: clean_symbol with the description,
\* then the rows with an empty symbol are filtered out
CleanedRow(row, parsed_symbol) ==
    LET s == clean_symbol(parsed_symbol, Containing(row.Description))
    IN  IF s = EmptyText THEN <<>> ELSE <<[row EXCEPT !.Symbol = Spelled(s)]>>

\* the rows a path hands to its engine for one row read: none when the row
\* is filtered out; _recalculate_realized_pnl_for_symbol selects the rows of
\* its symbol and normalises the type inside its loop (RecalcStep)
Classified(path, row) ==
    CASE path = "parse_cibc" ->
           IF row.Action \in CibcKept
           THEN CleanedRow([row EXCEPT !.Action = get_cibc_action(row),
                                    !.Commission = FillNa0(@),
                                    !.Amount = get_amount(row)],
                        Ticker(row.Symbol, <<>>))
           ELSE <<>>
      [] path = "parse_rbc" ->
           IF row.Symbol = "" THEN <<>>
           ELSE CleanedRow([row EXCEPT !.Action = get_rbc_action(row),
                                    !.Quantity = RAbs(@),
                                    !.Commission = Zero],
                        Ticker(row.Symbol, <<>>))
      [] path = "parse_td" ->
           CleanedRow([row EXCEPT !.Action = action_map(row.Action),
                               !.Quantity = RAbs(@),
                               !.Commission = RAbs(FillNa0(@))],
                   extract_td_symbol(Containing(row.Description)))
      [] path = "load_portfolio_from_db" -> LoadPortfolioFromDbRows(<<row>>)
      [] OTHER -> IF row.Symbol = symbol THEN <<row>> ELSE <<>>

TypeStrings ==
    {"Buy", "Sell", "BUY", "SELL", "DRIP", "Dividend", "Transf In",
     "buy", "sell", "Merger", "Reinvest", "Fee"}

TypeDescriptions == {{}, {"SURRENDERED"}, {"RECEIVED"}, {"REINV"}, {"REI -"}}

\* rows of every type, and rows whose other columns the parsers normalise:
\* a signed quantity or commission, a missing commission, a transfer whose
\* amount is in the description, a symbol that is in the description only
RawRows ==
    {Tx("OLD", t, R(1), R(3), Zero, NaN, "CAD", d) :
        t \in TypeStrings, d \in TypeDescriptions}
    \cup {Tx("OLD", t, R(-1), R(3), R(-1), R(-4), "CAD", {"MICROSOFT"}) :
            t \in {"BUY", "Buy", "DRIP", "Fee"}}
    \cup {Tx("OLD", "BUY", R(1), R(3), NaN, NaN, "CAD", {"WHITECAP RESOURCES"}),
          Tx("OLD", "SELL", R(-1), R(3), R(1), R(2), "CAD", {"MICROSOFT"}),
          Tx("OLD", "Transf In", R(1), Zero, NaN, Zero, "CAD", {"BOOK VALUE 6"}),
          Tx("OLD", "Transf In", R(1), Zero, NaN, Zero, "CAD", {"BOOK VALUE"}),
          Tx("OLD", "Sell", R(1), Zero, NaN, NaN, "CAD", {"BOOK VALUE 6"}),
          Tx("", "Buy", R(1), R(3), R(1), R(-4), "CAD", {"AIR CANADA"}),
          Tx("", "Buy", R(1), R(3), R(1), R(-4), "CAD", {})}

InitClassify ==
    /\ loader \in ParserPaths \cup DbPaths
    /\ engine = (IF loader = "_recalculate_realized_pnl_for_symbol"
                 THEN "recalculate" ELSE "calculate_holdings")
    /\ symbol = (IF engine = "recalculate" THEN "OLD" ELSE "-")
    /\ FirstCall
    /\ df_tx = <<>>
    /\ pc = "iter"
    /\ EmptyDb
    /\ tie_order = "insertion"
    /\ portfolio = <<>>
    /\ NoProcess

\* a path reads one more row, and its engine consumes what the path made of it
ReadRow ==
    /\ loader \in ParserPaths \cup DbPaths
    /\ Len(df_tx) < MaxRaw
    /\ \E raw \in RawRows :
         LET row == [raw EXCEPT !.Date = Len(df_tx) + 1]
             out == Classified(loader, row)
         IN  /\ df_tx' = Append(df_tx, row)
             /\ hist' = hist \o out
             /\ before' = run
             /\ run' = IF out = <<>> THEN run
                       ELSE StepOf(run, out[1], Len(hist) + 1)
    /\ UNCHANGED <<engine, symbol, call, first, loader, pc, dbVars, tie_order, portfolio, procVars>>

SpecClassify == InitClassify /\ [][ReadRow]_vars

(***************************************************************************)
(* migrate (scripts/migrate_realized_pnl.py) and the REST handlers on the  *)
(* same RealizedPnL table                                                  *)
(*                                                                         *)
(* A broker file is its broker and account (parse_file_meta of its name)   *)
(* and its rows as the parser and clean_symbol left them.                  *)
(***************************************************************************)
NORBERT_GAMBIT_EXCLUDE == {"DLR", "DLR.TO"}

\* number of broker files in the transactions directory
MaxFiles == 1

RECURSIVE CRFFold(_, _)
\* for _, row in df.iterrows(): ...
CRFFold(st, df) == IF df = <<>> THEN st ELSE CRFFold(CRFStep(st, Head(df)), Tail(df))

RECURSIVE CRFKeyOrder(_, _, _)
\* the keys of `result` in the order the loop inserted them
CRFKeyOrder(st, df, keys) ==
    IF df = <<>> THEN keys
    ELSE LET after == CRFStep(st, Head(df))
             new   == DOMAIN after.result \ DOMAIN st.result
         IN  CRFKeyOrder(after, Tail(df),
                         IF new = {} THEN keys ELSE Append(keys, CHOOSE k \in new : TRUE))

\* realized = compute_realized_fifo(df); for (sym, curr), vals in realized.items(): ...
MigrateFileRows(file) ==
    LET df       == MigrateSort(file.rows)
        realized == CRFFold(CRFEmpty, df).result
        keys     == CRFKeyOrder(CRFEmpty, df, <<>>)
        kept(k)  == k[1] \notin NORBERT_GAMBIT_EXCLUDE /\ ~IsNaN(realized[k].pnl)
        order    == SelectSeq(keys, kept)
    IN  [i \in 1..Len(order) |->
            [symbol |-> order[i][1], currency |-> order[i][2],
             pnl_amount |-> realized[order[i]].pnl,
             cost_basis_sold |-> realized[order[i]].cost_basis,
             broker |-> file.broker, account_type |-> file.account_type,
             source |-> "broker_csv"]]

RECURSIVE MigrateAllRows(_)
\* for f in sorted(files): ... all_rows.append(...)
MigrateAllRows(files) ==
    IF files = <<>> THEN <<>>
    ELSE MigrateFileRows(Head(files)) \o MigrateAllRows(Tail(files))

CsvFiles ==
    {[broker |-> "TD", account_type |-> "TFSA",
      rows |-> <<Dated(Tx("OLD", "BUY", R(1), R(3), R(1), R(-6), "CAD", Plain), 1),
                 Dated(Tx("OLD", "SELL", R(1), R(3), R(1), R(10), "CAD", Plain), 2)>>],
     [broker |-> "CIBC", account_type |-> "Open",
      rows |-> <<Dated(Tx("NEW", "SELL", R(1), R(3), R(1), R(10), "USD", Plain), 1),
                 Dated(Tx("NEW", "BUY", R(2), R(3), R(1), R(-6), "USD", Plain), 1)>>],
     [broker |-> "RBC", account_type |-> "RRSP",
      rows |-> <<Dated(Tx("DLR.TO", "BUY", R(1), R(3), R(1), R(-6), "CAD", Plain), 1),
                 Dated(Tx("DLR.TO", "SELL", R(1), R(3), R(1), R(10), "CAD", Plain), 2)>>]}

Directories == UNION {[1..n -> CsvFiles] : n \in 0..MaxFiles}

(***************************************************************************)
(* The engine is called a second time on the list of the first call        *)
(***************************************************************************)
\* the first call returns and the function is called again with the
\* DataFrame of the first call: iterrows() hands out copies of its rows and
\* neither function assigns to df_tx, so the frame is as it was passed
SecondCall ==
    /\ engine \in {"calculate_holdings", "compute_realized_fifo"}
    /\ loader = "-"
    /\ call = 1
    /\ call' = 2
    /\ first' = [rows |-> hist, returned |-> Return(engine, run)]
    /\ df_tx' = hist
    /\ hist' = <<>>
    /\ run' = IF engine = "calculate_holdings" THEN CHEnter(run) ELSE CRFEnter(run)
    /\ before' = run
    /\ UNCHANGED <<engine, symbol, loader, pc, dbVars, tie_order, portfolio, procVars>>

\* for _, tx in df_tx.iterrows(): one iteration of the second call
SecondCallRow ==
    /\ engine \in {"calculate_holdings", "compute_realized_fifo"}
    /\ loader = "-"
    /\ call = 2
    /\ df_tx # <<>>
    /\ hist' = Append(hist, Head(df_tx))
    /\ before' = run
    /\ run' = StepOf(run, Head(df_tx), Len(hist) + 1)
    /\ df_tx' = Tail(df_tx)
    /\ UNCHANGED <<engine, symbol, call, first, loader, pc, dbVars, tie_order,
                   portfolio, procVars>>

(***************************************************************************)
(* The loaders: each orders the rows, then its engine consumes them        *)
(***************************************************************************)
Loaders == {"load_all_transactions", "load_portfolio_from_db", "migrate",
            "_recalculate_realized_pnl_for_symbol"}

EngineOf(l) ==
    CASE l \in {"load_all_transactions", "load_portfolio_from_db"} ->
           "calculate_holdings"
      [] l = "migrate" -> "compute_realized_fifo"
      [] OTHER -> "recalculate"

InitLoad ==
    /\ loader \in Loaders
    /\ engine = EngineOf(loader)
    /\ symbol = (IF engine = "recalculate" THEN "OLD" ELSE "-")
    /\ FirstCall
    /\ df_tx \in LoadInputs
    /\ pc = "load"
    /\ EmptyDb
    /\ tie_order = "insertion"
    /\ portfolio = <<>>
    /\ NoProcess

Loaded(rows) ==
    /\ pc = "load"
    /\ pc' = "iter"
    /\ df_tx' = rows
    /\ UNCHANGED <<engine, symbol, engineVars, loader, dbVars, tie_order, portfolio, procVars>>

\* load_all_transactions: rank, sort, drop the empty symbols
LoadAllTransactions ==
    /\ loader = "load_all_transactions"
    /\ Loaded(LoadAllTransactionsSort(df_tx))

\* load_portfolio_from_db: the rows as the SELECT returned them,
\* and cache_result found no live entry (cache_obj.get returned None)
LoadPortfolioFromDb ==
    /\ loader = "load_portfolio_from_db"
    /\ portfolio_cache = <<>>
    /\ Loaded(LoadPortfolioFromDbRows(df_tx))

\* migrate: drop the empty symbols, rank, sort
Migrate ==
    /\ loader = "migrate"
    /\ Loaded(MigrateSort(df_tx))

\* _recalculate_realized_pnl_for_symbol: the symbol's rows by date
RecalculateQuery ==
    /\ loader = "_recalculate_realized_pnl_for_symbol"
    /\ Loaded(LET of_symbol(row) == row.Symbol = symbol
                  rows == SelectSeq(df_tx, of_symbol)
              IN  Rows(SortKeyed([i \in 1..Len(rows) |->
                                     <<rows[i], <<rows[i].Date, 0>> >>])))

\* one iteration of the engine's loop over the loaded rows
Iterrows ==
    /\ loader # "-"
    /\ pc = "iter"
    /\ df_tx # <<>>
    /\ hist' = Append(hist, Head(df_tx))
    /\ before' = run
    /\ run' = StepOf(run, Head(df_tx), Len(hist) + 1)
    /\ df_tx' = Tail(df_tx)
    /\ UNCHANGED <<engine, symbol, call, first, loader, pc, dbVars, tie_order, portfolio, procVars>>

NextLoad ==
    \/ LoadAllTransactions
    \/ LoadPortfolioFromDb
    \/ Migrate
    \/ RecalculateQuery
    \/ Iterrows

SpecLoad == InitLoad /\ [][NextLoad]_vars

(***************************************************************************)
(* load_portfolio_from_db: ledger holdings merged with the Holding table   *)
(*                                                                         *)
(* A Holding row has symbol, broker, account_type, quantity,               *)
(* purchase_price, commission, trade_date; a column that is NULL holds     *)
(* NoText (text), None (number) or NoDate (date).                          *)
(***************************************************************************)
\* longest Holding table
MaxHoldings == 2

NoText == "None"
NoDate == 0

HoldingRow(sym, broker, account, qty, price, comm, date) ==
    [symbol |-> sym, broker |-> broker, account_type |-> account,
     quantity |-> qty, purchase_price |-> price, commission |-> comm,
     trade_date |-> date, comment |-> NoText]

\* (h.symbol, h.broker, h.account_type)
KeyOf(h) == <<h.symbol, h.broker, h.account_type>>

RECURSIVE ManualHoldingsMap(_)
\* { key: h for h in holdings } as a list of <<key, h>> in dict order: a key
\* keeps the place of its first row and the value of its last
ManualHoldingsMap(holdings) ==
    IF holdings = <<>> THEN <<>>
    ELSE LET front == ManualHoldingsMap(SubSeq(holdings, 1, Len(holdings) - 1))
             h     == holdings[Len(holdings)]
         IN  IF \E i \in 1..Len(front) : front[i][1] = KeyOf(h)
             THEN [i \in 1..Len(front) |->
                     IF front[i][1] = KeyOf(h) THEN <<KeyOf(h), h>> ELSE front[i]]
             ELSE Append(front, <<KeyOf(h), h>>)

HasKey(map, key) == \E i \in 1..Len(map) : map[i][1] = key
Lookup(map, key) == map[CHOOSE i \in 1..Len(map) : map[i][1] = key][2]

RECURSIVE SymbolOrder(_)
\* the keys of the dict `lots` in insertion order: symbols by their first BUY
SymbolOrder(h) ==
    IF h = <<>> THEN <<>>
    ELSE LET front == SymbolOrder(SubSeq(h, 1, Len(h) - 1))
             tx    == h[Len(h)]
         IN  IF tx.Action = "BUY" /\ ~\E i \in 1..Len(front) : front[i] = tx.Symbol
             THEN Append(front, tx.Symbol) ELSE front

\* the rows of df_h_holdings, in order; r.get('Broker') and
\* r.get('Account_Type') are None, calculate_holdings sets no such column
LedgerRows(holdings, h) ==
    LET kept(sym) == sym \in DOMAIN holdings
        order == SelectSeq(SymbolOrder(h), kept)
    IN  [i \in 1..Len(order) |->
           [Symbol |-> order[i], Broker |-> NoText, Account_Type |-> NoText,
            Purchase_Price |-> holdings[order[i]].PurchasePrice,
            Quantity |-> holdings[order[i]].Quantity,
            Commission |-> holdings[order[i]].Commission,
            Trade_Date |-> holdings[order[i]].TradeDate]]

LedgerKey(r) == <<r.Symbol, r.Broker, r.Account_Type>>

\* Mutant: the manual purchase price is not applied.
OverrideKeepsPrice(d, h) ==
    [d EXCEPT
       !.Quantity = IF h.quantity # None THEN h.quantity ELSE @,
       !.Trade_Date = IF h.trade_date # NoDate THEN h.trade_date ELSE @,
       !.Commission = IF h.commission # None THEN h.commission ELSE @]

\* OVERRIDE with manual entry if exists for this specific account
Override(d, h) ==
    [d EXCEPT
       !.Quantity = IF h.quantity # None THEN h.quantity ELSE @,
       !.Purchase_Price = IF h.purchase_price # None THEN h.purchase_price ELSE @,
       !.Trade_Date = IF h.trade_date # NoDate THEN h.trade_date ELSE @,
       !.Commission = IF h.commission # None THEN h.commission ELSE @]

\* the row built for a manual entry that was not in transactions
Standalone(h) ==
    [Symbol |-> h.symbol, Broker |-> h.broker, Account_Type |-> h.account_type,
     Purchase_Price |-> h.purchase_price, Quantity |-> h.quantity,
     Commission |-> DbOr0(h.commission), Trade_Date |-> h.trade_date]

\* 4. Combine and Enrich: the rows of the returned DataFrame
Combine(ledger, holdings) ==
    LET map == ManualHoldingsMap(holdings)
        overridden == [i \in 1..Len(ledger) |->
                         IF HasKey(map, LedgerKey(ledger[i]))
                         THEN Override(ledger[i], Lookup(map, LedgerKey(ledger[i])))
                         ELSE ledger[i]]
        processed_keys == {LedgerKey(ledger[i]) : i \in 1..Len(ledger)}
        unprocessed(e) == /\ e[1] \notin processed_keys
                          /\ DbOr0(e[2].quantity) # Zero
                          /\ RGt(e[2].quantity, Zero)
        added == SelectSeq(map, unprocessed)
    IN  overridden \o [i \in 1..Len(added) |-> Standalone(added[i][2])]

\* the transactions and the Holding rows of the reconciliation runs
LedgerInputs ==
    LET buy_old  == Dated(Tx("OLD", "BUY", R(2), R(3), R(1), R(-6), "CAD", Plain), 1)
        buy_new  == Dated(Tx("NEW", "BUY", R(1), R(3), R(1), R(-6), "CAD", Plain), 2)
        sell_old == Dated(Tx("OLD", "SELL", R(2), R(3), R(1), R(10), "CAD", Plain), 3)
    IN  {<<>>, <<buy_old>>, <<buy_new, buy_old>>, <<buy_old, sell_old>>,
         <<buy_old, buy_new, sell_old>>}

ManualRows ==
    {HoldingRow(sym, k[1], k[2], v[1], v[2], v[3], v[4]) :
        sym \in Symbols,
        k \in {<<NoText, NoText>>, <<"TD", "TFSA">>},
        v \in {<<None, None, None, NoDate>>,
               <<R(3), R(7), R(2), 5>>,
               <<R(3), None, None, NoDate>>,
               <<Zero, R(7), None, 5>>,
               <<R(-1), None, R(2), NoDate>>}}

ManualInputs == UNION {[1..n -> ManualRows] : n \in 0..MaxHoldings}

InitPortfolio ==
    /\ loader = "load_portfolio_from_db"
    /\ engine = "calculate_holdings"
    /\ symbol = "-"
    /\ FirstCall
    /\ df_tx \in LedgerInputs
    /\ pc = "load"
    /\ transaction_table = <<>>
    /\ realizedpnl_table = <<>>
    /\ holding_table \in ManualInputs
    /\ holding_id = [i \in 1..Len(holding_table) |-> i]
    /\ realizedpnl_id = <<>>
    /\ next_id = NoSequence
    /\ tie_order = "insertion"
    /\ portfolio = <<>>
    /\ NoProcess

\* the rest of load_portfolio_from_db, after calculate_holdings returned;
\* with no transaction at all it returns an empty frame; cache_result
\* stores what the function returned (cache_obj.set)
CombineAndReturn ==
    /\ loader = "load_portfolio_from_db"
    /\ pc = "iter"
    /\ df_tx = <<>>
    /\ pc' = "done"
    /\ portfolio' = IF hist = <<>> THEN <<>>
                    ELSE Combine(LedgerRows(CHHoldings(run), hist), holding_table)
    /\ portfolio_cache' = <<portfolio'>>
    /\ UNCHANGED <<engine, symbol, engineVars, loader, df_tx, dbVars, tie_order,
                   requests, migration>>

\* cache_result: the entry is still alive, the wrapper returns it and the
\* function body does not run
ReturnCached ==
    /\ loader = "load_portfolio_from_db"
    /\ pc = "load"
    /\ portfolio_cache # <<>>
    /\ pc' = "hit"
    /\ portfolio' = portfolio_cache[1]
    /\ UNCHANGED <<engine, symbol, engineVars, loader, df_tx, dbVars, tie_order, procVars>>

\* TTLCache.get: the entry is older than ttl, it is deleted and get returns None
CacheExpired ==
    /\ loader = "load_portfolio_from_db"
    /\ pc = "load"
    /\ portfolio_cache # <<>>
    /\ portfolio_cache' = <<>>
    /\ UNCHANGED <<engine, symbol, engineVars, loader, df_tx, pc, dbVars, tie_order,
                   portfolio, requests, migration>>

\* the Transaction table at a later call
LaterInputs == LedgerInputs

\* a later call of load_portfolio_from_db, the Transaction table as it then is
CallAgain ==
    /\ loader = "load_portfolio_from_db"
    /\ pc \in {"done", "hit"}
    /\ pc' = "load"
    /\ df_tx' \in LaterInputs
    /\ run' = Fresh(engine)
    /\ before' = Fresh(engine)
    /\ hist' = <<>>
    /\ portfolio' = <<>>
    /\ UNCHANGED <<engine, symbol, call, first, loader, dbVars, tie_order, procVars>>

NextPortfolio ==
    \/ LoadPortfolioFromDb
    \/ Iterrows
    \/ CombineAndReturn
    \/ ReturnCached
    \/ CacheExpired
    \/ CallAgain

SpecPortfolio == InitPortfolio /\ [][NextPortfolio]_vars

(***************************************************************************)
(* portfolio.csv as scripts/migrate_to_db.py reads it, and the Holding     *)
(* rows it makes of the file                                               *)
(***************************************************************************)
CsvRow(sym, comment, qty, price, comm, date, type) ==
    [Symbol |-> sym, Comment |-> comment, Quantity |-> qty, Purchase_Price |-> price,
     Commission |-> comm, Trade_Date |-> date, Transaction_Type |-> type]

\* an empty CSV field of a text column, read as NaN (str() of it is 'nan');
\* an empty number is NaN, an empty date NoDate
NoField == "nan"

\* the contents of portfolio.csv (<<>>: no file)
PortfolioCsvs ==
    {<<>>,
     <<CsvRow("OLD", "TD TFSA", R(2), R(3), R(1), 1, NoField),
       CsvRow("OLD", "TD TFSA", R(1), NaN, NaN, NoDate, "Buy")>>,
     <<CsvRow("OLD", "TD TFSA", NaN, R(5), R(1), 2, "Buy")>>,
     <<CsvRow("NEW", NoField, R(1), R(3), R(1), 1, "Buy"),
       CsvRow(NoField, "TD TFSA", R(1), R(5), R(1), 2, "Buy")>>}

\* comment_str.split()
Split(comment) == IF comment = "TD TFSA" THEN <<"TD", "TFSA">> ELSE <<>>

\* the order of the strings of the model
TextRank(s) ==
    CASE s = "DLR.TO" -> 1 [] s = "NEW" -> 2 [] s = "OLD" -> 3
      [] s = "TD TFSA" -> 4 [] OTHER -> 5

RECURSIVE GroupKeys(_)
\* df_manual.groupby(['Symbol', 'Comment'], dropna=False): the keys, sorted,
\* a missing Symbol or Comment after the others
GroupKeys(df) ==
    IF df = <<>> THEN <<>>
    ELSE LET keys == {<<df[i].Symbol, df[i].Comment>> : i \in 1..Len(df)}
             least == CHOOSE k \in keys : \A o \in keys :
                         \/ TextRank(k[1]) < TextRank(o[1])
                         \/ k[1] = o[1] /\ TextRank(k[2]) <= TextRank(o[2])
             other(r) == <<r.Symbol, r.Comment>> # least
         IN  <<least>> \o GroupKeys(SelectSeq(df, other))

RECURSIVE SumColumn(_, _)
SumColumn(rows, column) ==
    IF rows = <<>> THEN Zero
    ELSE RAdd(Head(rows)[column], SumColumn(Tail(rows), column))

RECURSIVE MaxTradeDate(_)
\* parsed_dates.max() of the dates that are there
MaxTradeDate(rows) ==
    IF rows = <<>> THEN NoDate
    ELSE LET rest == MaxTradeDate(Tail(rows))
         IN  IF Head(rows).Trade_Date > rest THEN Head(rows).Trade_Date ELSE rest

\* 3. Process Holdings: the Holding row of one (symbol, comment) group; the
\* rows without a Quantity are dropped, then those without a Purchase Price
\* for the price and those without a Commission for the commission
MigratedHolding(key, df) ==
    LET in_group(r) == <<r.Symbol, r.Comment>> = key
        rows  == SelectSeq(df, in_group)
        has_qty(r)   == ~IsNaN(r.Quantity)
        has_price(r) == ~IsNaN(r.Purchase_Price)
        has_comm(r)  == ~IsNaN(r.Commission)
        valid_qty_rows == SelectSeq(rows, has_qty)
        price_qty_rows == SelectSeq(valid_qty_rows, has_price)
        comm_col       == SelectSeq(valid_qty_rows, has_comm)
        costs == [i \in 1..Len(price_qty_rows) |->
                    [cost |-> RMul(price_qty_rows[i].Purchase_Price,
                                   price_qty_rows[i].Quantity)]]
        priced_qty  == SumColumn(price_qty_rows, "Quantity")
        comment_str == IF key[2] = NoField THEN "" ELSE key[2]
        parts == Split(comment_str)
    IN  [symbol |-> key[1],
         broker |-> IF Len(parts) >= 2 THEN parts[1] ELSE NoText,
         account_type |-> IF Len(parts) >= 2 THEN parts[2] ELSE NoText,
         quantity |-> IF valid_qty_rows = <<>> THEN None
                      ELSE SumColumn(valid_qty_rows, "Quantity"),
         purchase_price |-> IF price_qty_rows # <<>> /\ RGt(priced_qty, Zero)
                            THEN RDiv(SumColumn(costs, "cost"), priced_qty)
                            ELSE None,
         commission |-> IF valid_qty_rows = <<>> THEN None
                        ELSE IF comm_col = <<>> THEN Zero
                        ELSE SumColumn(comm_col, "Commission"),
         trade_date |-> MaxTradeDate(rows),
         comment |-> IF comment_str = "" THEN NoText ELSE comment_str]

\* for (symbol, comment), rows in groups: if pd.isna(symbol): continue
MigratedHoldings(df) ==
    LET named(k) == k[1] # NoField
        keys == SelectSeq(GroupKeys(df), named)
    IN  [i \in 1..Len(keys) |-> MigratedHolding(keys[i], df)]

(***************************************************************************)
(* The REST handlers on the database                                       *)
(*                                                                         *)
(* A step is one statement a handler or a script sends to the database: a  *)
(* SELECT, or a session.commit() with the INSERTs, UPDATEs and DELETEs its *)
(* flush sends first.  What a session has committed is what the others     *)
(* read.  Up to MaxInFlight sessions are open at once, requests and at most *)
(* one script; their steps interleave in any order.                        *)
(***************************************************************************)
\* sessions open at the same time: requests (nothing in api.py serialises
\* them) and a migration script
MaxInFlight == 2

\* the largest id the Holding and RealizedPnL tables come to: a request or a
\* script is started only while the rows it and the open sessions may still
\* insert get ids up to MaxId; once started it runs as the code does
MaxId == 3

RECURSIVE MaxOf(_)
MaxOf(ids) ==
    IF ids = <<>> THEN 0
    ELSE LET rest == MaxOf(Tail(ids))
         IN  IF Head(ids) > rest THEN Head(ids) ELSE rest

\* the id column of the Transaction rows
IdsOf(table) == [i \in 1..Len(table) |-> table[i].id]

\* the ids the database gives n rows inserted into table t, whose rows have
\* the ids `ids`
NewIds(t, ids, n) ==
    [k \in 1..n |-> (IF next_id[t] = RowId THEN MaxOf(ids) + 1 ELSE next_id[t]) + k - 1]

\* next_id after n rows were inserted into table t
AfterInsert(t, n) ==
    IF next_id[t] = RowId THEN next_id ELSE [next_id EXCEPT ![t] = @ + n]

InitApi ==
    /\ engine = "api"
    /\ symbol = "-"
    /\ FirstCall
    /\ NoLoad
    /\ transaction_table = <<>>
    /\ realizedpnl_table = <<>>
    /\ holding_table = <<>>
    /\ holding_id = <<>>
    /\ realizedpnl_id = <<>>
    /\ next_id \in {NoSequence, FirstIds}
    /\ tie_order = "insertion"
    /\ portfolio = <<>>
    /\ NoProcess

\* DBTransaction(...) as add_transaction builds it
NewDbTransaction(tx, id) ==
    [id |-> id, symbol |-> tx.Symbol, date |-> tx.Trade_Date,
     type |-> tx.Transaction_Type, quantity |-> tx.Quantity,
     price |-> tx.Purchase_Price, commission |-> tx.Commission,
     amount |-> RAdd(RMul(tx.Purchase_Price, tx.Quantity), tx.Commission),
     currency |-> IF EndsWithTO(tx.Symbol) THEN "CAD" ELSE "USD",
     description |-> tx.Comment, source |-> "Manual"]

\* Holding(symbol=...): every other column is NULL
NewHolding(sym) == HoldingRow(sym, NoText, NoText, None, None, None, NoDate)

HasHolding(table, sym) == \E i \in 1..Len(table) : table[i].symbol = sym

\* a request in progress: its handler, the statement it comes to next, the
\* objects it holds (its body, the rows it built), its symbol and the ids of
\* the rows it selected
Request(handler, at, held, sym) ==
    [handler |-> handler, at |-> at, held |-> held, symbol |-> sym, existing |-> {}]

\* the requests in progress are a bag: two requests can be alike
Added(q, r) == q (+) SetToBag({r})

Removed(q, r) == q (-) SetToBag({r})

Replaced(q, r, s) == Added(Removed(q, r), s)

RECURSIVE Undeleted(_, _, _)
\* DELETE ... WHERE id = ? for each id of `gone`: what is left of `column`,
\* a column of the rows whose ids are `ids`; an id no row has deletes nothing
Undeleted(column, ids, gone) ==
    IF ids = <<>> THEN <<>>
    ELSE (IF Head(ids) \in gone THEN <<>> ELSE <<Head(column)>>)
            \o Undeleted(Tail(column), Tail(ids), gone)

\* SQLite lets one connection write at a time: a session that has flushed
\* rows and not committed keeps the commits of the others waiting.  Only the
\* loop of migrate_to_db flushes before its commit (autoflush of its SELECT).
WriteLocked == next_id = NoSequence /\ migration.pending # <<>>

\* the sessions open now
InFlight == BagCardinality(requests) + (IF migration = NoMigration THEN 0 ELSE 1)

\* add_transaction requests that have not inserted their row yet
PendingAdds ==
    LET adding == {r \in BagToSet(requests) :
                      r.handler = "add_transaction" /\ r.at \in {"holding", "transaction"}}
    IN  BagCardinality([r \in adding |-> requests[r]])

\* whether a request for sym comes to build RealizedPnL rows: a symbol has
\* one currency, so a recalculation builds at most one row
Recalculated(sym) == sym \notin _NORBERT_GAMBIT_EXCLUDE

\* the Holding rows the open sessions may still insert
PendingHoldings ==
    LET inserting == {r \in BagToSet(requests) : r.at \in {"holding", "insert"}}
    IN  BagCardinality([r \in inserting |-> requests[r]])
          + (IF migration.script = "migrate_to_db" /\ migration.at = "holdings"
             THEN Len(MigratedHoldings(migration.rows)) ELSE 0)

\* the RealizedPnL rows the open sessions may still insert
PendingPnl ==
    LET inserting ==
            {r \in BagToSet(requests) :
                /\ Recalculated(r.symbol)
                /\ \/ r.at \in {"delete", "recalculate", "existing"}
                   \/ r.at = "commit" /\ r.held # <<>>
                   \/ /\ r.at \in {"holding", "transaction"}
                      /\ r.held[1].Transaction_Type \in {"Sell", "SELL"}}
    IN  BagCardinality([r \in inserting |-> requests[r]])
          + (IF migration.script = "migrate_realized_pnl" THEN Len(migration.rows)
             ELSE 0)

\* n more rows of the Holding table get ids up to MaxId
HoldingIdsLeft(n) ==
    n = 0 \/ NewIds("holding", holding_id, 1)[1] + PendingHoldings + n - 1 <= MaxId

\* n more rows of the RealizedPnL table get ids up to MaxId
PnlIdsLeft(n) ==
    n = 0 \/ NewIds("realizedpnl", realizedpnl_id, 1)[1] + PendingPnl + n - 1 <= MaxId

\* POST /api/transactions, 1. Ensure Holding exists: the SELECT
AddTransactionOf(txs) ==
    /\ engine = "api"
    /\ InFlight < MaxInFlight
    /\ NewIds("transaction", IdsOf(transaction_table), 1)[1] + PendingAdds <= MaxTx
    /\ \E tx \in txs :
         /\ HoldingIdsLeft(IF HasHolding(holding_table, tx.Symbol) THEN 0 ELSE 1)
         /\ PnlIdsLeft(IF tx.Transaction_Type \in {"Sell", "SELL"}
                          /\ Recalculated(tx.Symbol) THEN 1 ELSE 0)
         /\ requests' = Added(requests,
                               Request("add_transaction",
                                       IF HasHolding(holding_table, tx.Symbol)
                                       THEN "transaction" ELSE "holding",
                                       <<tx>>, tx.Symbol))
    /\ UNCHANGED <<otherVars, dbVars, migration>>

AddTransaction == AddTransactionOf(ApiTx)

\* POST /api/transactions: session.add(new_h); session.commit()
AddTransactionHolding ==
    /\ engine = "api"
    /\ ~WriteLocked
    /\ \E r \in BagToSet(requests) :
         /\ r.handler = "add_transaction"
         /\ r.at = "holding"
         /\ holding_table' = Append(holding_table, NewHolding(r.symbol))
         /\ holding_id' = holding_id \o NewIds("holding", holding_id, 1)
         /\ requests' = Replaced(requests, r, [r EXCEPT !.at = "transaction"])
    /\ next_id' = AfterInsert("holding", 1)
    /\ UNCHANGED <<otherVars, transaction_table, realizedpnl_table, realizedpnl_id,
                   migration>>

\* POST /api/transactions, 2. Add Transaction: session.add(db_tx);
\* session.commit(); a Sell goes on to the recalculation, any other type returns
AddTransactionRow ==
    /\ engine = "api"
    /\ ~WriteLocked
    /\ \E r \in BagToSet(requests) :
         /\ r.handler = "add_transaction"
         /\ r.at = "transaction"
         /\ transaction_table' =
               Append(transaction_table,
                      NewDbTransaction(r.held[1],
                                       NewIds("transaction",
                                              IdsOf(transaction_table), 1)[1]))
         /\ requests' =
               IF r.held[1].Transaction_Type \in {"Sell", "SELL"}
               THEN Replaced(requests, r,
                             [r EXCEPT !.at = "recalculate", !.held = <<>>])
               ELSE Removed(requests, r)
    /\ next_id' = AfterInsert("transaction", 1)
    /\ UNCHANGED <<otherVars, realizedpnl_table, holding_table, holding_id,
                   realizedpnl_id, migration>>

\* DELETE /api/transactions/{id}: tx = session.get(DBTransaction, id), for an
\* id the table holds (any other id is answered 404 without a change)
DeleteTransaction ==
    /\ engine = "api"
    /\ InFlight < MaxInFlight
    /\ \E i \in 1..Len(transaction_table) :
         /\ PnlIdsLeft(IF Recalculated(transaction_table[i].symbol) THEN 1 ELSE 0)
         /\ requests' = Added(requests,
                               [Request("delete_transaction", "delete", <<>>,
                                        transaction_table[i].symbol)
                                  EXCEPT !.existing = {transaction_table[i].id}])
    /\ UNCHANGED <<otherVars, dbVars, migration>>

\* DELETE /api/transactions/{id}: session.delete(tx); session.commit(): the
\* row of that id goes, whichever row has the id by then
DeleteTransactionRow ==
    /\ engine = "api"
    /\ ~WriteLocked
    /\ \E r \in BagToSet(requests) :
         /\ r.at = "delete"
         /\ transaction_table' = Undeleted(transaction_table, IdsOf(transaction_table),
                                           r.existing)
         /\ requests' = Replaced(requests, r,
                                 [r EXCEPT !.at = "recalculate",
                                                     !.existing = {}])
    /\ UNCHANGED <<otherVars, realizedpnl_table, holding_table, next_id, holding_id,
                   realizedpnl_id, migration>>

\* the RealizedPnL rows the FIFO loop of _recalculate_realized_pnl_for_symbol
\* builds from the transactions it selected
RecalcRowsOf(db_txs, sym) ==
    IF db_txs = <<>> THEN <<>>
    ELSE RecalcNewRows(RecalcFold(RecalcEmpty, db_txs, sym).realized,
                       RecalcKeyOrder(RecalcEmpty, db_txs, sym, <<>>), sym)

\* _recalculate_realized_pnl_for_symbol: the SELECT of the symbol's
\* transactions and the loop over them; an excluded symbol returns at once
RecalculateSelect ==
    /\ engine = "api"
    /\ \E r \in BagToSet(requests) :
         /\ r.at = "recalculate"
         /\ requests' =
               IF r.symbol \in _NORBERT_GAMBIT_EXCLUDE
               THEN Removed(requests, r)
               ELSE Replaced(requests, r,
                       [r EXCEPT
                           !.at = "existing",
                           !.held = RecalcRowsOf(RecalcQuery(transaction_table,
                                                             r.symbol,
                                                             tie_order),
                                                 r.symbol)])
    /\ UNCHANGED <<otherVars, dbVars, migration>>

\* the ids of the rows of (sym, "db_transaction")
DbTransactionRows(table, ids, sym) ==
    {ids[i] : i \in {j \in 1..Len(table) :
                        table[j].symbol = sym /\ table[j].source = "db_transaction"}}

\* _recalculate_realized_pnl_for_symbol: existing = session.exec(select(
\* RealizedPnL).where(symbol).where(source == "db_transaction")).all()
RecalculateExisting ==
    /\ engine = "api"
    /\ \E r \in BagToSet(requests) :
         /\ r.at = "existing"
         /\ requests' = Replaced(requests, r,
               [r EXCEPT
                   !.at = "commit",
                   !.existing = DbTransactionRows(realizedpnl_table, realizedpnl_id,
                                                  r.symbol)])
    /\ UNCHANGED <<otherVars, dbVars, migration>>

\* _recalculate_realized_pnl_for_symbol: session.commit(): the flush inserts
\* the rows built, then deletes the rows selected; then the handler returns
RecalculateRealizedPnl ==
    /\ engine = "api"
    /\ ~WriteLocked
    /\ \E r \in BagToSet(requests) :
         LET new_ids == NewIds("realizedpnl", realizedpnl_id, Len(r.held))
         IN  /\ r.at = "commit"
             /\ realizedpnl_table' =
                   Undeleted(realizedpnl_table, realizedpnl_id, r.existing)
                      \o r.held
             /\ realizedpnl_id' =
                   Undeleted(realizedpnl_id, realizedpnl_id, r.existing)
                      \o new_ids
             /\ next_id' = AfterInsert("realizedpnl", Len(new_ids))
             /\ requests' = Removed(requests, r)
    /\ UNCHANGED <<otherVars, transaction_table, holding_table, holding_id, migration>>

\* except Exception as e: raise HTTPException(status_code=500): the request
\* ends where it is, what it committed stays
RequestFails ==
    /\ engine = "api"
    /\ \E r \in BagToSet(requests) : requests' = Removed(requests, r)
    /\ UNCHANGED <<otherVars, dbVars, migration>>

UpdateSymbols == {"OLD"}

\* the values of data['Comment']; <<>> when the body has no such key
UpdateComments == {<<>>, <<"TD TFSA">>}

\* the id of the row .first() returns, {} when there is none
FirstHolding(table, ids, sym) ==
    {ids[i] : i \in {j \in 1..Len(table) :
                        /\ table[j].symbol = sym
                        /\ \A k \in 1..(j - 1) : table[k].symbol # sym}}

\* the comments of the rows whose ids are in `found`
LoadedComments(table, ids, found) ==
    {table[i].comment : i \in {j \in 1..Len(table) : ids[j] \in found}}

\* PUT /api/holdings/{symbol}: h = session.exec(select(Holding).where(...)).first()
\* and h.comment = data['Comment']: the session holds the comment as changed
\* only when the value set differs from the value it loaded (thesis,
\* conviction, timeframe and kill_switch are columns the model does not hold)
UpdateHolding ==
    /\ engine = "api"
    /\ InFlight < MaxInFlight
    /\ \E sym \in UpdateSymbols, data \in UpdateComments :
         LET found == FirstHolding(holding_table, holding_id, sym)
             changed == IF data # <<>> /\ data[1] \in
                                            LoadedComments(holding_table, holding_id,
                                                           found)
                        THEN <<>> ELSE data
         IN  /\ HoldingIdsLeft(IF found = {} THEN 1 ELSE 0)
             /\ requests' =
                   Added(requests,
                          [Request("update_holding",
                                   IF found = {} THEN "insert" ELSE "update",
                                   changed, sym) EXCEPT !.existing = found])
    /\ UNCHANGED <<otherVars, dbVars, migration>>

\* PUT /api/holdings/{symbol}: session.add(h); session.commit(): the INSERT
\* of the new Holding, or UPDATE ... WHERE id = ? when the comment changed
\* (no statement when it did not); an UPDATE that matches no row makes the
\* request fail
UpdateHoldingCommit ==
    /\ engine = "api"
    /\ ~WriteLocked
    /\ \E r \in BagToSet(requests) :
         LET h == IF r.held = <<>> THEN NewHolding(r.symbol)
                  ELSE [NewHolding(r.symbol) EXCEPT !.comment = r.held[1]]
             inserts == IF r.at = "insert" THEN 1 ELSE 0
         IN  /\ r.handler = "update_holding"
             /\ holding_table' =
                   IF r.at = "insert" THEN Append(holding_table, h)
                   ELSE IF r.held = <<>> THEN holding_table
                   ELSE [k \in 1..Len(holding_table) |->
                            IF holding_id[k] \in r.existing
                            THEN [holding_table[k] EXCEPT !.comment = r.held[1]]
                            ELSE holding_table[k]]
             /\ holding_id' = holding_id \o NewIds("holding", holding_id, inserts)
             /\ next_id' = AfterInsert("holding", inserts)
             /\ requests' = Removed(requests, r)
    /\ UNCHANGED <<otherVars, transaction_table, realizedpnl_table, realizedpnl_id,
                   migration>>

\* the handlers of the transactions
NextApi ==
    \/ AddTransaction
    \/ AddTransactionHolding
    \/ AddTransactionRow
    \/ DeleteTransaction
    \/ DeleteTransactionRow
    \/ RecalculateSelect
    \/ RecalculateExisting
    \/ RecalculateRealizedPnl
    \/ RequestFails

SpecApi == InitApi /\ [][NextApi]_vars

(***************************************************************************)
(* Second calls: an engine on the list of its first call, and              *)
(* _recalculate_realized_pnl_for_symbol on the tables of its first call    *)
(***************************************************************************)
\* the Transaction tables of the second calls: ids 1, 2, ...
StoredTx ==
    LET bodies == UNION {[1..n -> ApiTx] : n \in 0..MaxTx}
    IN  {[i \in 1..Len(b) |-> NewDbTransaction(b[i], i)] : b \in bodies}

\* a RealizedPnL row of another run
StoredPnl(sym, source) ==
    [symbol |-> sym, currency |-> "USD", pnl_amount |-> R(1),
     cost_basis_sold |-> R(8), broker |-> "Manual", account_type |-> "Manual",
     source |-> source]

\* the RealizedPnL tables of the second calls
StoredPnls ==
    {<<>>,
     <<StoredPnl("OLD", "db_transaction")>>,
     <<StoredPnl("OLD", "broker_csv"), StoredPnl("OLD", "db_transaction")>>}

InitTwice ==
    \/ Init /\ engine \in {"calculate_holdings", "compute_realized_fifo"}
    \/ /\ engine = "api"
       /\ symbol = "-"
       /\ FirstCall
       /\ NoLoad
       /\ transaction_table \in StoredTx
       /\ realizedpnl_table \in StoredPnls
       /\ holding_table = <<>>
       /\ holding_id = <<>>
       /\ realizedpnl_id = [i \in 1..Len(realizedpnl_table) |-> i]
       /\ next_id \in {NoSequence,
                       [FirstIds EXCEPT !["transaction"] = Len(transaction_table) + 1,
                                        !["realizedpnl"] = Len(realizedpnl_table) + 1]}
       /\ tie_order \in {"insertion", "reverse"}
       /\ portfolio = <<>>
       /\ NoProcess

\* _recalculate_realized_pnl_for_symbol(session, sym) is called, and called
\* again with the same symbol when the first call has returned
RecalculateCall ==
    /\ engine = "api"
    /\ requests = EmptyBag
    /\ \/ /\ symbol = "-"
          /\ \E sym \in ApiSymbols : symbol' = sym
          /\ UNCHANGED <<call, first>>
       \/ /\ symbol # "-"
          /\ call = 1
          /\ call' = 2
          /\ first' = [rows |-> transaction_table, returned |-> realizedpnl_table]
          /\ UNCHANGED symbol
    /\ requests' = SetToBag({Request("_recalculate_realized_pnl_for_symbol",
                                     "recalculate", <<>>, symbol')})
    /\ UNCHANGED <<engine, run, hist, before, loadVars, dbVars, tie_order, portfolio,
                   migration, portfolio_cache>>

NextTwice ==
    \/ CalculateHoldingsRow
    \/ ComputeRealizedFifoRow
    \/ SecondCall
    \/ SecondCallRow
    \/ RecalculateCall
    \/ RecalculateSelect
    \/ RecalculateExisting
    \/ RecalculateRealizedPnl

SpecTwice == InitTwice /\ [][NextTwice]_vars

(***************************************************************************)
(* scripts/migrate_to_db.py: the Transaction and Holding tables rebuilt    *)
(* from portfolio.csv                                                      *)
(***************************************************************************)
\* pd.Timestamp.now(), the date of a row without a Trade Date: a day after
\* the dates of the file
Now == 3

\* clean_val(val, 0.0)
CleanVal(val) == IF IsNaN(val) THEN Zero ELSE val

\* Transaction(...) as the loop over portfolio.csv builds it; the id comes
\* with the INSERT
MigratedTransaction(row) ==
    LET qty   == CleanVal(row.Quantity)
        price == CleanVal(row.Purchase_Price)
        comm  == CleanVal(row.Commission)
    IN  [id |-> 0, symbol |-> row.Symbol,
         date |-> IF row.Trade_Date = NoDate THEN Now ELSE row.Trade_Date,
         type |-> IF row.Transaction_Type \in {NoField, ""} THEN "Buy"
                  ELSE row.Transaction_Type,
         quantity |-> qty, price |-> price, commission |-> comm,
         amount |-> RAdd(RMul(qty, price), comm),
         currency |-> IF EndsWithTO(row.Symbol) THEN "CAD" ELSE "USD",
         description |-> Plain, source |-> "Manual"]

\* the INSERT of the rows added to the session: each gets the next id
Flushed(added, table) ==
    LET ids == NewIds("transaction", IdsOf(table), Len(added))
    IN  [k \in 1..Len(added) |-> [added[k] EXCEPT !.id = ids[k]]]

\* 0. Wipe existing database tables (first commit), then portfolio.csv is
\* read
MigrateToDbWipe ==
    /\ engine = "api"
    /\ migration = NoMigration
    /\ InFlight < MaxInFlight
    /\ \E df_manual \in PortfolioCsvs :
         /\ NewIds("transaction", <<>>, 1)[1] + Len(df_manual) + PendingAdds
               <= MaxTx + 1
         /\ \/ MigratedHoldings(df_manual) = <<>>
            \/ NewIds("holding", <<>>, 1)[1] + PendingHoldings
                  + Len(MigratedHoldings(df_manual)) - 1 <= MaxId
         /\ migration' = [NoMigration EXCEPT !.script = "migrate_to_db",
                                             !.at = "holdings",
                                             !.rows = df_manual]
    /\ transaction_table' = <<>>
    /\ holding_table' = <<>>
    /\ holding_id' = <<>>
    /\ UNCHANGED <<otherVars, realizedpnl_table, realizedpnl_id, next_id, requests>>

\* 3. Process Holdings (third commit; the second writes the theses, a table
\* the model does not hold)
MigrateToDbHoldings ==
    /\ engine = "api"
    /\ migration.script = "migrate_to_db"
    /\ migration.at = "holdings"
    /\ LET new_h == MigratedHoldings(migration.rows)
           new_ids == NewIds("holding", holding_id, Len(new_h))
       IN  /\ holding_table' = holding_table \o new_h
           /\ holding_id' = holding_id \o new_ids
           /\ next_id' = AfterInsert("holding", Len(new_h))
    /\ migration' = [migration EXCEPT !.at = "transactions"]
    /\ UNCHANGED <<otherVars, transaction_table, realizedpnl_table, realizedpnl_id,
                   requests>>

\* 4. Load Transactions from portfolio.csv, one iteration of the loop: a row
\* without Quantity or symbol is skipped; else the SELECT of its Holding
\* (before it, autoflush inserts the row added by the iteration before), and
\* a row whose (symbol, comment) finds a Holding is added to the session;
\* str() of a missing Comment is 'nan'
MigrateToDbRow ==
    /\ engine = "api"
    /\ migration.script = "migrate_to_db"
    /\ migration.at = "transactions"
    /\ migration.rows # <<>>
    /\ LET row == Head(migration.rows)
           found == \E i \in 1..Len(holding_table) :
                       /\ holding_table[i].symbol = row.Symbol
                       /\ holding_table[i].comment = row.Comment
           flushed == Flushed(migration.added,
                              transaction_table \o migration.pending)
       IN  IF IsNaN(row.Quantity) \/ row.Symbol = ""
           THEN /\ migration' = [migration EXCEPT !.rows = Tail(@)]
                /\ UNCHANGED next_id
           ELSE /\ migration' =
                      [migration EXCEPT
                          !.rows = Tail(@),
                          !.pending = @ \o flushed,
                          !.added = IF found THEN <<MigratedTransaction(row)>>
                                    ELSE <<>>]
                /\ next_id' = AfterInsert("transaction", Len(flushed))
    /\ UNCHANGED <<otherVars, transaction_table, realizedpnl_table, holding_table,
                   holding_id, realizedpnl_id, requests>>

\* 4. Load Transactions from portfolio.csv: session.commit() (last commit)
MigrateToDbTransactions ==
    /\ engine = "api"
    /\ migration.script = "migrate_to_db"
    /\ migration.at = "transactions"
    /\ migration.rows = <<>>
    /\ LET flushed == Flushed(migration.added,
                              transaction_table \o migration.pending)
       IN  /\ transaction_table' = transaction_table \o migration.pending \o flushed
           /\ next_id' = AfterInsert("transaction", Len(flushed))
    /\ migration' = NoMigration
    /\ UNCHANGED <<otherVars, realizedpnl_table, holding_table, holding_id,
                   realizedpnl_id, requests>>

\* the bodies of POST /api/transactions sent while the tables are rebuilt
RebuildTx == {ApiBody("OLD", "Sell", 2)}

\* every writer of the Holding and Transaction tables together
NextRebuild ==
    \/ AddTransactionOf(RebuildTx)
    \/ AddTransactionHolding
    \/ AddTransactionRow
    \/ DeleteTransaction
    \/ DeleteTransactionRow
    \/ RecalculateSelect
    \/ RecalculateExisting
    \/ RecalculateRealizedPnl
    \/ RequestFails
    \/ UpdateHolding
    \/ UpdateHoldingCommit
    \/ MigrateToDbWipe
    \/ MigrateToDbHoldings
    \/ MigrateToDbRow
    \/ MigrateToDbTransactions

SpecRebuild == InitApi /\ [][NextRebuild]_vars

(***************************************************************************)
(* scripts/migrate_realized_pnl.py and the REST handlers together          *)
(***************************************************************************)
\* the bodies of POST /api/transactions sent while migrate() runs
StoreTx == {ApiBody("OLD", "Buy", 1), ApiBody("OLD", "Sell", 2)}

\* the transactions directory of migrate(): empty, or a file with a sale of
\* the symbol of the requests
StoreDirectories ==
    {files \in Directories : \A i \in 1..Len(files) : files[i].broker = "TD"}

\* migrate(), up to existing = session.exec(select(RealizedPnL)).all():
\* all_rows computed from the files, every RealizedPnL row selected
MigrateRealizedPnl ==
    /\ engine = "api"
    /\ migration = NoMigration
    /\ InFlight < MaxInFlight
    /\ \E files \in StoreDirectories :
         /\ PnlIdsLeft(Len(MigrateAllRows(files)))
         /\ migration' = [NoMigration EXCEPT
                             !.script = "migrate_realized_pnl",
                             !.at = "delete",
                             !.rows = MigrateAllRows(files),
                             !.existing = {realizedpnl_id[i] :
                                              i \in 1..Len(realizedpnl_id)}]
    /\ UNCHANGED <<otherVars, dbVars, requests>>

\* migrate(), its first commit: the rows selected are deleted
MigrateRealizedPnlDelete ==
    /\ engine = "api"
    /\ migration.script = "migrate_realized_pnl"
    /\ migration.at = "delete"
    /\ realizedpnl_table' = Undeleted(realizedpnl_table, realizedpnl_id,
                                      migration.existing)
    /\ realizedpnl_id' = Undeleted(realizedpnl_id, realizedpnl_id, migration.existing)
    /\ migration' = [migration EXCEPT !.at = "insert", !.existing = {}]
    /\ UNCHANGED <<otherVars, transaction_table, holding_table, holding_id, next_id,
                   requests>>

\* migrate(), its second commit: for row in all_rows: session.add(row)
MigrateRealizedPnlInsert ==
    /\ engine = "api"
    /\ migration.script = "migrate_realized_pnl"
    /\ migration.at = "insert"
    /\ LET new_ids == NewIds("realizedpnl", realizedpnl_id, Len(migration.rows))
       IN  /\ realizedpnl_table' = realizedpnl_table \o migration.rows
           /\ realizedpnl_id' = realizedpnl_id \o new_ids
           /\ next_id' = AfterInsert("realizedpnl", Len(new_ids))
    /\ migration' = NoMigration
    /\ UNCHANGED <<otherVars, transaction_table, holding_table, holding_id, requests>>

NextStore ==
    \/ AddTransactionOf(StoreTx)
    \/ AddTransactionHolding
    \/ AddTransactionRow
    \/ DeleteTransaction
    \/ DeleteTransactionRow
    \/ RecalculateSelect
    \/ RecalculateExisting
    \/ RecalculateRealizedPnl
    \/ RequestFails
    \/ MigrateRealizedPnl
    \/ MigrateRealizedPnlDelete
    \/ MigrateRealizedPnlInsert

SpecStore == InitApi /\ [][NextStore]_vars


(***************************************************************************)
(* Views of a run's locals, uniform over the three engines                 *)
(***************************************************************************)
LotsOf(st, sym) == IF sym \in DOMAIN st.lots THEN st.lots[sym] ELSE <<>>

LotQty(lot)  == IF engine = "calculate_holdings" THEN lot.Quantity ELSE lot.qty
LotCost(lot) == IF engine = "calculate_holdings" THEN lot.Cost ELSE lot.cost
LotCurrency(lot) ==
    IF engine = "calculate_holdings" THEN lot.Currency ELSE lot.currency

\* the quantity and cost of each lot of a queue, in queue order
QtyCost(q) == [i \in 1..Len(q) |-> <<LotQty(q[i]), LotCost(q[i])>>]

\* the realized-P&L entries as a set of <<symbol, currency, pnl>>
PnlEntries(st) ==
    CASE engine = "calculate_holdings" ->
           UNION {{<<s, c, st.realized_pnl[s][c]>> : c \in DOMAIN st.realized_pnl[s]} :
                     s \in DOMAIN st.realized_pnl}
      [] engine = "compute_realized_fifo" ->
           {<<k[1], k[2], st.result[k].pnl>> : k \in DOMAIN st.result}
      [] OTHER ->
           {<<symbol, c, st.realized[c].pnl>> : c \in DOMAIN st.realized}

\* the pnl of (sym, cur); 0 when there is no entry
PnlOf(st, sym, cur) ==
    IF \E e \in PnlEntries(st) : e[1] = sym /\ e[2] = cur
    THEN (CHOOSE e \in PnlEntries(st) : e[1] = sym /\ e[2] = cur)[3]
    ELSE Zero

\* cost_basis_sold of (sym, cur) in the engines that record it; 0 when no entry
CostBasisSoldOf(st, sym, cur) ==
    CASE engine = "compute_realized_fifo" ->
           Get(st.result, <<sym, cur>>, NoPnl).cost_basis
      [] engine = "recalculate" -> Get(st.realized, cur, NoPnl).cost_basis
      [] OTHER -> Zero

\* the pending merger carryover of sym; 0 when there is none
CarryOf(st, sym) ==
    CASE engine = "calculate_holdings" -> Get(st.merger_basis_carryover, sym, Zero)
      [] engine = "compute_realized_fifo" -> Get(st.merger_basis, sym, Zero)
      [] OTHER -> Zero

RECURSIVE SumCost(_)
SumCost(q) == IF q = <<>> THEN Zero ELSE RAdd(LotCost(Head(q)), SumCost(Tail(q)))

Last(h) == h[Len(h)]
Front(h) == SubSeq(h, 1, Len(h) - 1)

\* The specification's cost of a BUY and proceeds of a SELL (section 4.4).
SpecCost(tx) ==
    IF ~IsNaN(tx.Amount) /\ tx.Amount # Zero THEN RAbs(tx.Amount)
    ELSE RAdd(RMul(tx.Quantity, tx.Price), tx.Commission)
SpecProceeds(tx) ==
    IF ~IsNaN(tx.Amount) /\ tx.Amount # Zero THEN tx.Amount
    ELSE RSub(RMul(tx.Quantity, tx.Price), tx.Commission)

RECURSIVE SumOver(_, _, _)
\* sum of f[i] for i in lo..hi
SumOver(f, lo, hi) == IF hi < lo THEN Zero ELSE RAdd(f[hi], SumOver(f, lo, hi - 1))

(***************************************************************************)
(* C1  Conservation.  When the rows consumed are BUYs of one symbol in one *)
(* currency, each of positive quantity, followed by one non-merger SELL of *)
(* the total quantity bought, the realized P&L of (symbol, currency) is    *)
(* the SELL's proceeds minus the sum of the BUYs' costs, and no lot of the *)
(* symbol remains.                                                         *)
(***************************************************************************)
BuysThenFullSell ==
    /\ Len(hist) >= 2
    /\ LET n == Len(hist)
           s == hist[n]
       IN  /\ s.Action = "SELL"
           /\ ~IsMergerSurrender(s.Description)
           /\ \A i \in 1..(n - 1) :
                /\ hist[i].Action = "BUY"
                /\ hist[i].Symbol = s.Symbol
                /\ hist[i].Currency = s.Currency
                /\ RGt(hist[i].Quantity, Zero)
           /\ s.Quantity = SumOver([i \in 1..(n - 1) |-> hist[i].Quantity], 1, n - 1)

C1_Conservation ==
    BuysThenFullSell =>
        LET n == Len(hist)
            s == hist[n]
            total_cost == SumOver([i \in 1..(n - 1) |-> SpecCost(hist[i])], 1, n - 1)
        IN  /\ PnlOf(run, s.Symbol, s.Currency) = RSub(SpecProceeds(s), total_cost)
            /\ LotsOf(run, s.Symbol) = <<>>

\* two BUYs of different cost, fully sold by calculate_holdings
C1_Witness ==
    /\ engine = "calculate_holdings"
    /\ BuysThenFullSell
    /\ Len(hist) = 3
    /\ SpecCost(hist[1]) # SpecCost(hist[2])
    /\ PnlOf(run, hist[3].Symbol, hist[3].Currency) # Zero


(***************************************************************************)
(* C2  FIFO order.  A SELL removes a prefix of the symbol's lot queue and  *)
(* reduces at most the lot that follows the removed prefix; every later    *)
(* lot is untouched.  With at least two lots, a non-merger SELL no larger  *)
(* than the first lot charges sold quantity times the first lot's          *)
(* per-share cost and leaves the second lot unchanged.  In the sample run  *)
(* the realized P&L is 250 and one lot of 5 shares and cost 100 remains.   *)
(***************************************************************************)
LastIsSell == Len(hist) >= 1 /\ Last(hist).Action = "SELL"

OldestFirst(pre, post) ==
    \E k \in 0..Len(pre) :
        /\ Len(post) = Len(pre) - k
        /\ \A j \in 2..Len(post) : post[j] = pre[k + j]
        /\ Len(post) >= 1 =>
             \/ post[1] = pre[k + 1]
             \/ RLt(LotQty(post[1]), LotQty(pre[k + 1]))

C2_FifoOrder ==
    /\ LastIsSell =>
         LET s    == Last(hist)
             pre  == LotsOf(before, s.Symbol)
             post == LotsOf(run, s.Symbol)
             q    == s.Quantity
         IN  /\ OldestFirst(pre, post)
             /\ ( /\ Len(pre) >= 2
                  /\ RGt(q, Zero)
                  /\ RLe(q, LotQty(pre[1]))
                  /\ engine = "recalculate" \/ ~IsMergerSurrender(s.Description) )
                =>
                LET taken == RMul(q, RDiv(LotCost(pre[1]), LotQty(pre[1])))
                IN  /\ RSub(PnlOf(run, s.Symbol, s.Currency),
                            PnlOf(before, s.Symbol, s.Currency))
                          = RSub(SpecProceeds(s), taken)
                    /\ engine # "calculate_holdings" =>
                          RSub(CostBasisSoldOf(run, s.Symbol, s.Currency),
                               CostBasisSoldOf(before, s.Symbol, s.Currency)) = taken
                    /\ Len(post) >= 1
                    /\ post[Len(post)] = pre[Len(pre)]
                    /\ IF q = LotQty(pre[1]) THEN post = Tail(pre)
                       ELSE /\ Tail(post) = Tail(pre)
                            /\ LotQty(post[1]) = RSub(LotQty(pre[1]), q)
                            /\ LotCost(post[1]) = RSub(LotCost(pre[1]), taken)
    /\ Undated(hist) = SampleFifo =>
         /\ PnlOf(run, "OLD", "CAD") = R(250)
         /\ QtyCost(LotsOf(run, "OLD")) = << <<R(5), R(100)>> >>

\* the sample scenario, run to its end by calculate_holdings
C2_Witness ==
    /\ engine = "calculate_holdings"
    /\ Undated(hist) = SampleFifo
    /\ PnlOf(run, "OLD", "CAD") = R(250)

(***************************************************************************)
(* C4  A merger-surrender SELL leaves every realized-P&L entry unchanged   *)
(* and raises the symbol's merger carryover by exactly the cost it removed *)
(* from the symbol's lots (calculate_holdings and compute_realized_fifo).  *)
(* (Original claim.)                                                       *)
(***************************************************************************)
LastIsSurrender ==
    /\ LastIsSell
    /\ IsMergerSurrender(Last(hist).Description)
    /\ engine \in {"calculate_holdings", "compute_realized_fifo"}

C4_SurrenderDivertsCost ==
    LastIsSurrender =>
        LET sym == Last(hist).Symbol IN
        /\ PnlEntries(run) = PnlEntries(before)
        /\ CarryOf(run, sym) =
              RAdd(CarryOf(before, sym),
                   RSub(SumCost(LotsOf(before, sym)), SumCost(LotsOf(run, sym))))

(***************************************************************************)
(* C4 (amended)  A merger-surrender SELL leaves every realized-P&L entry   *)
(* unchanged and raises the symbol's merger carryover by the cost it       *)
(* consumed: the whole cost of each lot it used up and cost * taken /      *)
(* quantity of the lot it took a part of.  calculate_holdings removes      *)
(* exactly that cost from the lots; compute_realized_fifo also takes the   *)
(* partly consumed lot off the queue when at most 1e-6 of it is left, and  *)
(* the cost left in that lot goes to no carryover.                         *)
(***************************************************************************)
RECURSIVE ConsumedCost(_, _)
\* the cost a SELL of quantity q consumes of the lots, oldest first
ConsumedCost(lots, q) ==
    IF lots = <<>> \/ RLe(q, Zero) THEN Zero
    ELSE IF RLe(LotQty(Head(lots)), q)
    THEN RAdd(LotCost(Head(lots)),
              ConsumedCost(Tail(lots), RSub(q, LotQty(Head(lots)))))
    ELSE RMul(LotCost(Head(lots)), RDiv(q, LotQty(Head(lots))))

RECURSIVE CostLeftInDust(_, _)
\* the cost left in the lot a SELL of quantity q takes a part of, when at
\* most 1e-6 of the lot is left
CostLeftInDust(lots, q) ==
    IF lots = <<>> \/ RLe(q, Zero) THEN Zero
    ELSE IF RLe(LotQty(Head(lots)), q)
    THEN CostLeftInDust(Tail(lots), RSub(q, LotQty(Head(lots))))
    ELSE IF RLe(RSub(LotQty(Head(lots)), q), Epsilon)
    THEN RSub(LotCost(Head(lots)),
              RMul(LotCost(Head(lots)), RDiv(q, LotQty(Head(lots)))))
    ELSE Zero

C4_SurrenderDivertsConsumedCost ==
    LastIsSurrender =>
        LET s        == Last(hist)
            pre      == LotsOf(before, s.Symbol)
            removed  == RSub(SumCost(pre), SumCost(LotsOf(run, s.Symbol)))
            consumed == ConsumedCost(pre, s.Quantity)
        IN  /\ PnlEntries(run) = PnlEntries(before)
            /\ CarryOf(run, s.Symbol) = RAdd(CarryOf(before, s.Symbol), consumed)
            /\ removed = IF engine = "calculate_holdings" THEN consumed
                         ELSE RAdd(consumed, CostLeftInDust(pre, s.Quantity))

\* a surrender by compute_realized_fifo that consumed cost and left at most
\* 1e-6 of a lot: the lots lost more cost than the carryover gained
C4_Witness ==
    /\ LastIsSurrender
    /\ engine = "compute_realized_fifo"
    /\ RGt(CarryOf(run, Last(hist).Symbol), CarryOf(before, Last(hist).Symbol))
    /\ RGt(CostLeftInDust(LotsOf(before, Last(hist).Symbol), Last(hist).Quantity),
           Zero)

(***************************************************************************)
(* C9  Proportional split.  A SELL of q out of a symbol's single lot       *)
(* (Q, C), 0 < q < Q, leaves the single lot (Q - q, C - C*q/Q); selling    *)
(* half leaves half the quantity and half the cost.  (Original claim.)     *)
(***************************************************************************)
PartialSaleOfSingleLot ==
    /\ LastIsSell
    /\ Len(LotsOf(before, Last(hist).Symbol)) = 1
    /\ RGt(Last(hist).Quantity, Zero)
    /\ RLt(Last(hist).Quantity, LotQty(LotsOf(before, Last(hist).Symbol)[1]))

SurrenderThenReceipt ==
    /\ engine \in {"calculate_holdings", "compute_realized_fifo"}
    /\ Len(hist) >= 2
    /\ LET sell == hist[Len(hist) - 1]
           buy  == hist[Len(hist)]
       IN  /\ sell.Action = "SELL" /\ IsMergerSurrender(sell.Description)
           /\ RGt(sell.Quantity, Zero)
           /\ buy.Action = "BUY" /\ IsMergerReceipt(buy.Description)
           /\ RGt(buy.Quantity, Zero)
           /\ buy.Symbol # sell.Symbol
    /\ \A i \in 1..Len(hist) : RGt(hist[i].Quantity, Zero)

C3_MergerNeutrality ==
    /\ SurrenderThenReceipt =>
         LET sell    == hist[Len(hist) - 1]
             buy     == hist[Len(hist)]
             A       == sell.Symbol
             B       == buy.Symbol
             st0     == RunOf(SubSeq(hist, 1, Len(hist) - 2))
             carried == RSub(SumCost(LotsOf(st0, A)), SumCost(LotsOf(before, A)))
             lotsB   == LotsOf(run, B)
         IN  /\ \A cur \in {"CAD", "USD"} : PnlOf(run, A, cur) = PnlOf(st0, A, cur)
             /\ lotsB # <<>>
             /\ LotCost(Last(lotsB)) = RAdd(SpecCost(buy), carried)
    /\ (engine \in {"calculate_holdings", "compute_realized_fifo"}
        /\ Undated(hist) = SampleMerger) =>
         /\ PnlOf(run, "OLD", "CAD") = Zero
         /\ QtyCost(LotsOf(run, "NEW")) = << <<R(50), R(1000)>> >>

(***************************************************************************)
(* C10  A BUY or SELL row whose quantity is zero or negative is dropped:   *)
(* it creates no lot, removes or shrinks no lot, and changes no            *)
(* realized-P&L entry and no carryover, in every engine.                   *)
(***************************************************************************)
LastIsNonPositive ==
    /\ Len(hist) >= 1
    /\ Last(hist).Action \in {"BUY", "SELL"}
    /\ RLe(Last(hist).Quantity, Zero)

C10_NonPositiveDropped ==
    LastIsNonPositive =>
        /\ \A sym \in Symbols :
              /\ LotsOf(run, sym) = LotsOf(before, sym)
              /\ CarryOf(run, sym) = CarryOf(before, sym)
        /\ PnlEntries(run) = PnlEntries(before)

(***************************************************************************)
(* C5  Every run of a FIFO engine, whichever loader feeds it, consumes     *)
(* each symbol's rows in non-decreasing (date, action_rank) order, with    *)
(* rank 0 for merger-surrender SELLs, 1 for BUYs, 2 for ordinary SELLs and *)
(* 3 for dividends.                                                        *)
(***************************************************************************)
ActionRank(row) ==
    IF row.Action = "SELL" /\ IsMergerSurrender(row.Description) THEN 0
    ELSE IF row.Action = "BUY" THEN 1
    ELSE IF row.Action = "SELL" THEN 2
    ELSE 3

InRankOrder(first_row, second_row) ==
    \/ first_row.Date < second_row.Date
    \/ /\ first_row.Date = second_row.Date
       /\ ActionRank(first_row) <= ActionRank(second_row)

C5_ConsumedInRankOrder ==
    \A i, j \in 1..Len(hist) :
        (i < j /\ hist[i].Symbol = hist[j].Symbol) => InRankOrder(hist[i], hist[j])

(***************************************************************************)
(* C6  In the stream load_all_transactions returns, rows of an earlier     *)
(* date come before rows of a later date, and among rows of one date a     *)
(* merger-surrender SELL comes before every BUY, every BUY before every    *)
(* ordinary SELL, and every ordinary SELL before every dividend.           *)
(***************************************************************************)
ReturnedStream == hist \o df_tx

C6_LoadAllTransactionsOrder ==
    (loader = "load_all_transactions" /\ pc = "iter") =>
        \A i, j \in 1..Len(ReturnedStream) :
            i < j => InRankOrder(ReturnedStream[i], ReturnedStream[j])

\* a returned stream of one date with a surrender, a BUY and an ordinary SELL
C6_Witness ==
    /\ loader = "load_all_transactions"
    /\ pc = "iter"
    /\ hist = <<>>
    /\ Len(df_tx) = 3
    /\ df_tx[1].Date = df_tx[3].Date
    /\ ActionRank(df_tx[1]) = 0
    /\ ActionRank(df_tx[2]) = 1
    /\ ActionRank(df_tx[3]) = 2

StoredRows(sym) ==
    LET of_symbol(r) == r.symbol = sym /\ r.source = "db_transaction"
    IN  SelectSeq(realizedpnl_table, of_symbol)

FreshRows(sym) ==
    LET db_txs == RecalcQuery(transaction_table, sym, tie_order)
    IN  RecalcNewRows(RecalcFold(RecalcEmpty, db_txs, sym).realized,
                      RecalcKeyOrder(RecalcEmpty, db_txs, sym, <<>>), sym)

\* every call made so far has returned
CallsReturned == engine = "api" /\ requests = EmptyBag

C8_StoredNeverStale ==
    CallsReturned =>
        \A sym \in ApiSymbols \ _NORBERT_GAMBIT_EXCLUDE :
            StoredRows(sym) = FreshRows(sym)

(***************************************************************************)
(* C11  Oversell.  When an ordinary SELL's quantity exceeds the total      *)
(* quantity of the symbol's open lots, every lot is consumed and the queue *)
(* ends empty, realized P&L gains total_proceeds * (matched quantity /     *)
(* sell quantity) minus the cost of the consumed lots, and the unmatched   *)
(* remainder touches nothing else.                                         *)
(***************************************************************************)
RECURSIVE SumQty(_)
SumQty(q) == IF q = <<>> THEN Zero ELSE RAdd(LotQty(Head(q)), SumQty(Tail(q)))

Oversell ==
    /\ LastIsSell
    /\ engine = "recalculate" \/ ~IsMergerSurrender(Last(hist).Description)
    /\ LotsOf(before, Last(hist).Symbol) # <<>>
    /\ RGt(Last(hist).Quantity, Zero)
    /\ RGt(Last(hist).Quantity, SumQty(LotsOf(before, Last(hist).Symbol)))

OversellEffect ==
    LET s       == Last(hist)
        pre     == LotsOf(before, s.Symbol)
        matched == SumQty(pre)
        credit  == RSub(RMul(SpecProceeds(s), RDiv(matched, s.Quantity)),
                        SumCost(pre))
    IN  /\ LotsOf(run, s.Symbol) = <<>>
        /\ PnlOf(run, s.Symbol, s.Currency) =
              RAdd(PnlOf(before, s.Symbol, s.Currency), credit)
        /\ \A e \in PnlEntries(run) :
              (e[1] # s.Symbol \/ e[2] # s.Currency) => e \in PnlEntries(before)
        /\ \A sym \in Symbols :
              /\ CarryOf(run, sym) = CarryOf(before, sym)
              /\ sym # s.Symbol => LotsOf(run, sym) = LotsOf(before, sym)

C11_OversellDropsRemainder == Oversell => OversellEffect

\* the same statement over the runs whose rows all have a positive quantity
C11_OversellOfPositiveLots ==
    (Oversell /\ \A i \in 1..Len(hist) : RGt(hist[i].Quantity, Zero))
        => OversellEffect

(***************************************************************************)
(* C12  A SELL for a symbol that has no open lot (never bought, or every   *)
(* lot already consumed) is dropped: the lots, the realized-P&L entries    *)
(* and the merger carryover are the same after the SELL as before it.      *)
(***************************************************************************)
SellWithoutLots ==
    /\ LastIsSell
    /\ LotsOf(before, Last(hist).Symbol) = <<>>

C12_SellWithoutLotsDropped ==
    SellWithoutLots =>
        /\ \A sym \in Symbols :
              /\ LotsOf(run, sym) = LotsOf(before, sym)
              /\ CarryOf(run, sym) = CarryOf(before, sym)
        /\ PnlEntries(run) = PnlEntries(before)

\* a SELL of a symbol whose lots an earlier SELL consumed, booking P&L
C12_Witness ==
    /\ SellWithoutLots
    /\ engine = "calculate_holdings"
    /\ RGt(Last(hist).Quantity, Zero)
    /\ Last(hist).Symbol \in DOMAIN before.lots
    /\ PnlEntries(before) # {}

(***************************************************************************)
(* C13  When a BUY or SELL row has no amount (missing or zero) and its     *)
(* price is missing too, the computed cost of the BUY, or the computed     *)
(* total proceeds of the SELL, is 0: the new lot costs 0, and the SELL     *)
(* credits realized P&L with minus the cost of the lots it consumed.       *)
(***************************************************************************)
NoAmountNoPrice(tx) ==
    /\ tx.Action \in {"BUY", "SELL"}
    /\ IsNaN(tx.Amount) \/ tx.Amount = Zero
    /\ IsNaN(tx.Price)
    /\ RGt(tx.Quantity, Zero)

C13_MissingPriceGivesZero ==
    (Len(hist) >= 1 /\ NoAmountNoPrice(Last(hist))) =>
        LET tx   == Last(hist)
            pre  == LotsOf(before, tx.Symbol)
            post == LotsOf(run, tx.Symbol)
        IN  /\ tx.Action = "BUY" =>
                 /\ Len(post) = Len(pre) + 1
                 /\ LotCost(Last(post)) = Zero
            /\ (tx.Action = "SELL" /\ pre # <<>>) =>
                 PnlOf(run, tx.Symbol, tx.Currency) =
                    RSub(PnlOf(before, tx.Symbol, tx.Currency),
                         RSub(SumCost(pre), SumCost(post)))

(***************************************************************************)
(* C14  When a merger-receipt BUY finds no carryover to consume although a *)
(* merger-surrender SELL was processed earlier in the same run, the engine *)
(* reports the condition as a defect instead of silently creating the lot  *)
(* with its native cost only.                                              *)
(***************************************************************************)
ReceiptFindsNoCarryover ==
    /\ engine \in {"calculate_holdings", "compute_realized_fifo"}
    /\ Len(hist) >= 2
    /\ Last(hist).Action = "BUY"
    /\ IsMergerReceipt(Last(hist).Description)
    /\ \A i \in 1..Len(hist) : RGt(hist[i].Quantity, Zero)
    /\ \E i \in 1..(Len(hist) - 1) :
          hist[i].Action = "SELL" /\ IsMergerSurrender(hist[i].Description)
    /\ LotCost(Last(LotsOf(run, Last(hist).Symbol))) = SpecCost(Last(hist))
    /\ \A sym \in Symbols : CarryOf(run, sym) = CarryOf(before, sym)

ReportedForLastRow ==
    IF engine = "calculate_holdings" THEN CHReported(before, Last(hist))
    ELSE CRFReported(before, Last(hist))

C14_EmptyCarryoverReported == ReceiptFindsNoCarryover => ReportedForLastRow # {}

(***************************************************************************)
(* C15  The Holding derived for a symbol has quantity equal to the sum of  *)
(* the remaining lots' quantities, purchase price equal to the sum of      *)
(* their costs divided by the sum of their quantities, and trade date      *)
(* equal to the earliest date among the remaining lots (stated over the    *)
(* runs whose rows all have a positive quantity).                          *)
(***************************************************************************)
RECURSIVE EarliestDate(_)
EarliestDate(q) ==
    IF Len(q) = 1 THEN q[1].TradeDate
    ELSE LET d == EarliestDate(Tail(q))
         IN  IF q[1].TradeDate <= d THEN q[1].TradeDate ELSE d

HoldingsDerived == engine = "calculate_holdings"

C15_HoldingHasEarliestDate ==
    (HoldingsDerived /\ \A i \in 1..Len(hist) : RGt(hist[i].Quantity, Zero)) =>
        \A sym \in Symbols :
            LET lots == LotsOf(run, sym) IN
            lots # <<>> =>
                /\ sym \in DOMAIN CHHoldings(run)
                /\ CHHoldings(run)[sym].Quantity = SumQty(lots)
                /\ CHHoldings(run)[sym].PurchasePrice =
                      RDiv(SumCost(lots), SumQty(lots))
                /\ CHHoldings(run)[sym].TradeDate = EarliestDate(lots)

(***************************************************************************)
(* Views of a finished load_portfolio_from_db                              *)
(***************************************************************************)
Returned == loader = "load_portfolio_from_db" /\ pc = "done" /\ hist # <<>>

\* the holdings calculate_holdings derived, as rows keyed like the output
Ledger == LedgerRows(CHHoldings(run), hist)

ManualWithKey(key) == {i \in 1..Len(holding_table) : KeyOf(holding_table[i]) = key}

\* the manual row of a key: the last one when several rows share the key
ManualOf(key) ==
    holding_table[CHOOSE i \in ManualWithKey(key) : \A j \in ManualWithKey(key) : j <= i]

OutputWithKey(key) == {j \in 1..Len(portfolio) : LedgerKey(portfolio[j]) = key}

(***************************************************************************)
(* C16  For every ledger-derived holding whose (symbol, broker,            *)
(* account_type) key has a manual override row, each of quantity,          *)
(* purchase price, trade date and commission present in the manual row     *)
(* replaces the ledger-derived value in the output holding, and each field *)
(* absent from the manual row keeps the ledger-derived value.              *)
(***************************************************************************)
C16_ManualOverridesLedger ==
    Returned =>
        \A i \in 1..Len(Ledger) :
            LET r == Ledger[i]
                key == LedgerKey(r)
            IN  ManualWithKey(key) # {} =>
                  LET h == ManualOf(key) IN
                  \E j \in OutputWithKey(key) :
                     /\ portfolio[j].Quantity =
                           (IF h.quantity = None THEN r.Quantity ELSE h.quantity)
                     /\ portfolio[j].Purchase_Price =
                           (IF h.purchase_price = None THEN r.Purchase_Price
                            ELSE h.purchase_price)
                     /\ portfolio[j].Trade_Date =
                           (IF h.trade_date = NoDate THEN r.Trade_Date
                            ELSE h.trade_date)
                     /\ portfolio[j].Commission =
                           (IF h.commission = None THEN r.Commission
                            ELSE h.commission)

\* a ledger holding of OLD overridden by a manual row that has a quantity and
\* a price and by none that lacks them
C16_Witness ==
    /\ Returned
    /\ \E i \in 1..Len(Ledger) :
          /\ ManualWithKey(LedgerKey(Ledger[i])) # {}
          /\ ManualOf(LedgerKey(Ledger[i])).purchase_price # None
          /\ ManualOf(LedgerKey(Ledger[i])).purchase_price # Ledger[i].Purchase_Price
    /\ \E i \in 1..Len(Ledger) :
          /\ ManualWithKey(LedgerKey(Ledger[i])) # {}
          /\ ManualOf(LedgerKey(Ledger[i])).purchase_price = None
          /\ ManualOf(LedgerKey(Ledger[i])).quantity # None

(***************************************************************************)
(* C17  No holding in the output of load_portfolio_from_db has a quantity  *)
(* that is zero or negative: a holding whose reconciled quantity (after    *)
(* the manual override) is <= 0 is dropped from the result.                *)
(***************************************************************************)
C17_NoClosedHolding ==
    Returned => \A j \in 1..Len(portfolio) : RGt(portfolio[j].Quantity, Zero)

(***************************************************************************)
(* C18  Every manual override row whose (symbol, broker, account_type) key *)
(* matches no ledger-derived holding appears in the output of              *)
(* load_portfolio_from_db exactly once, as a standalone holding carrying   *)
(* the manual row's quantity, purchase price, commission and trade date.   *)
(* (Stated for the manual rows of positive quantity, which the             *)
(* reconciliation does not drop as closed positions, and for the last row  *)
(* of a key.)                                                              *)
(***************************************************************************)
Finished == loader = "load_portfolio_from_db" /\ pc = "done"

Unmatched(i) ==
    LET h == holding_table[i] IN
    /\ \A j \in ManualWithKey(KeyOf(h)) : j <= i
    /\ RGt(h.quantity, Zero)
    /\ \A k \in 1..Len(Ledger) : LedgerKey(Ledger[k]) # KeyOf(h)

IsStandaloneOf(row, h) ==
    /\ row.Quantity = h.quantity
    /\ row.Purchase_Price = h.purchase_price
    /\ row.Commission = (IF h.commission = None THEN Zero ELSE h.commission)
    /\ row.Trade_Date = h.trade_date

AppearsOnce(i) ==
    /\ Cardinality(OutputWithKey(KeyOf(holding_table[i]))) = 1
    /\ \A j \in OutputWithKey(KeyOf(holding_table[i])) :
          IsStandaloneOf(portfolio[j], holding_table[i])

C18_UnmatchedManualAppears ==
    Finished => \A i \in 1..Len(holding_table) : Unmatched(i) => AppearsOnce(i)

\* the same statement over the runs that read at least one transaction
C18_UnmatchedManualAppearsAfterTransactions ==
    Returned => \A i \in 1..Len(holding_table) : Unmatched(i) => AppearsOnce(i)

(***************************************************************************)
(* C19  The ledger treats a row as a merger event if and only if its       *)
(* upper-cased description contains one of MERGER, ADJUSTMENT, REORG and   *)
(* also SURRENDERED (a SELL: its cost goes to the carryover, not to        *)
(* realized P&L) or RECEIVED (a BUY: it consumes the carryover); and the   *)
(* surrender test of get_action_rank agrees with the ledger's on every     *)
(* row.                                                                    *)
(***************************************************************************)
HasMergerWord(desc) == desc \cap {"MERGER", "ADJUSTMENT", "REORG"} # {}

LedgerRow == engine \in {"calculate_holdings", "compute_realized_fifo"} /\ hist # <<>>

C19_MergerEventIffKeywords ==
    LedgerRow =>
        LET tx      == Last(hist)
            sym     == tx.Symbol
            pre     == LotsOf(before, sym)
            post    == LotsOf(run, sym)
            removed == RSub(SumCost(pre), SumCost(post))
        IN  /\ (tx.Action = "SELL" /\ pre # <<>>) =>
                 /\ IF "SURRENDERED" \in tx.Description /\ HasMergerWord(tx.Description)
                    THEN /\ CarryOf(run, sym) = RAdd(CarryOf(before, sym), removed)
                         /\ PnlEntries(run) = PnlEntries(before)
                    ELSE /\ CarryOf(run, sym) = CarryOf(before, sym)
                         /\ PnlOf(run, sym, tx.Currency) =
                               RAdd(PnlOf(before, sym, tx.Currency),
                                    RSub(SpecProceeds(tx), removed))
                 /\ (get_action_rank(tx) = 0) <=>
                       (CarryOf(run, sym) # CarryOf(before, sym))
            /\ tx.Action = "BUY" =>
                 IF "RECEIVED" \in tx.Description /\ HasMergerWord(tx.Description)
                 THEN /\ CarryOf(run, sym) = Zero
                      /\ LotCost(Last(post)) =
                            RAdd(SpecCost(tx), CarryOf(before, sym))
                 ELSE /\ CarryOf(run, sym) = CarryOf(before, sym)
                      /\ LotCost(Last(post)) = SpecCost(tx)

\* a BUY described RECEIVED without a merger word that left a pending
\* carryover alone
C19_Witness ==
    /\ LedgerRow
    /\ Last(hist).Action = "BUY"
    /\ Last(hist).Description = {"RECEIVED"}
    /\ RGt(CarryOf(run, "OLD"), Zero)

(***************************************************************************)
(* C20  A row whose broker action or stored type is not in the recognized  *)
(* vocabulary of its path is classified OTHER, never BUY or SELL, by       *)
(* parse_cibc, parse_rbc, parse_td and by the type normalization of        *)
(* load_portfolio_from_db and _recalculate_realized_pnl_for_symbol, and    *)
(* so changes neither the lots nor the realized P&L.                       *)
(***************************************************************************)
Vocabulary(path) ==
    CASE path = "parse_cibc" -> {"Buy", "Sell", "Dividend", "Reinvest", "Merger", "Transf In"}
      [] path = "parse_rbc"  -> {"Buy", "Sell", "Dividends", "Distribution"}
      [] path = "parse_td"   -> {"BUY", "SELL", "DIV", "DRIP", "TXPDDV"}
      [] OTHER -> {"Buy", "BUY", "Sell", "SELL", "DRIP", "Dividend", "DIV",
                   "Transf In", "Transfer In"}

\* parse_rbc scans the description for REINV before it looks at Activity:
\* such a row is recognized whatever its Activity
LastReadUnrecognized ==
    /\ loader \in ParserPaths \cup DbPaths
    /\ df_tx # <<>>
    /\ Last(df_tx).Action \notin Vocabulary(loader)
    /\ loader = "parse_rbc" =>
          Last(df_tx).Description \cap {"REINV", "REI -"} = {}

\* the row read last reached the engine
LastReadConsumed == hist # <<>> /\ Last(hist).Date = Len(df_tx)

C20_UnrecognizedIsOther ==
    LastReadUnrecognized =>
        /\ LastReadConsumed => Last(hist).Action \notin {"BUY", "SELL"}
        /\ run = before

(***************************************************************************)
(* C21  Symbols do not interfere.  Swapping two adjacent rows of different *)
(* symbols leaves the final lots, holdings and realized P&L of every       *)
(* symbol unchanged, and the lots and realized P&L of a symbol are the     *)
(* same whether or not the rows of another symbol are in the stream.       *)
(***************************************************************************)
SymbolsOf(h) == {h[i].Symbol : i \in 1..Len(h)}

\* the rows of h with rows i and i+1 exchanged
Swapped(h, i) ==
    [j \in 1..Len(h) |-> IF j = i THEN h[i + 1] ELSE IF j = i + 1 THEN h[i] ELSE h[j]]

\* the rows of h whose symbol is not sym
Without(h, sym) == LET other(row) == row.Symbol # sym IN SelectSeq(h, other)

HoldingsOf(st, sym) ==
    IF engine = "calculate_holdings"
    THEN LET rows == CHHoldings(st)
         IN  IF sym \in DOMAIN rows THEN {rows[sym]} ELSE {}
    ELSE {}

\* what a run holds for one symbol: its lots, its holding, its P&L entries
OfSymbol(st, sym) ==
    <<LotsOf(st, sym), HoldingsOf(st, sym), {e \in PnlEntries(st) : e[1] = sym}>>

C21_SymbolsIndependent ==
    engine \in {"calculate_holdings", "compute_realized_fifo"} =>
        /\ \A i \in 1..(Len(hist) - 1) :
             hist[i].Symbol # hist[i + 1].Symbol =>
                \A s \in SymbolsOf(hist) :
                    OfSymbol(RunOf(Swapped(hist, i)), s) = OfSymbol(run, s)
        /\ \A a \in SymbolsOf(hist) : \A b \in SymbolsOf(hist) \ {a} :
             OfSymbol(RunOf(Without(hist, a)), b) = OfSymbol(run, b)

(***************************************************************************)
(* C22  A BUY of positive quantity appends exactly one lot at the tail of  *)
(* its symbol's queue, with the BUY's quantity and currency and with cost  *)
(* abs(amount) when the amount is present and non-zero, otherwise          *)
(* quantity*price + commission, plus the carryover a merger receipt        *)
(* consumes; the lots already queued, the queues of the other symbols and  *)
(* every realized-P&L entry are unchanged.                                 *)
(***************************************************************************)
LastIsPositiveBuy ==
    /\ hist # <<>>
    /\ Last(hist).Action = "BUY"
    /\ RGt(Last(hist).Quantity, Zero)

C22_BuyAppendsOneLot ==
    LastIsPositiveBuy =>
        LET tx   == Last(hist)
            sym  == tx.Symbol
            post == LotsOf(run, sym)
            consumed == IF "RECEIVED" \in tx.Description /\ HasMergerWord(tx.Description)
                        THEN CarryOf(before, sym) ELSE Zero
        IN  /\ Len(post) = Len(LotsOf(before, sym)) + 1
            /\ Front(post) = LotsOf(before, sym)
            /\ LotQty(Last(post)) = tx.Quantity
            /\ LotCurrency(Last(post)) = tx.Currency
            /\ LotCost(Last(post)) = RAdd(SpecCost(tx), consumed)
            /\ CarryOf(run, sym) = RSub(CarryOf(before, sym), consumed)
            /\ \A s \in Symbols \ {sym} :
                 /\ LotsOf(run, s) = LotsOf(before, s)
                 /\ CarryOf(run, s) = CarryOf(before, s)
            /\ PnlEntries(run) = PnlEntries(before)

\* a merger receipt that consumed a pending carryover and joined a queue
\* that already held a lot
C22_Witness ==
    /\ LastIsPositiveBuy
    /\ engine = "calculate_holdings"
    /\ LotsOf(before, Last(hist).Symbol) # <<>>
    /\ IsMergerReceipt(Last(hist).Description)
    /\ RGt(CarryOf(before, Last(hist).Symbol), Zero)

(***************************************************************************)
(* C23  After every processed row, every lot of every queue has a quantity *)
(* above zero and not below the 1e-6 epsilon, and a cost of at least zero: *)
(* a lot whose quantity reached zero or fell below the epsilon is no       *)
(* longer queued.                                                          *)
(***************************************************************************)
C23_LotsAboveEpsilon ==
    engine \in Engines =>
        \A sym \in DOMAIN run.lots : \A i \in 1..Len(run.lots[sym]) :
            LET lot == run.lots[sym][i]
            IN  /\ RGt(LotQty(lot), Zero)
                /\ ~RLt(LotQty(lot), Epsilon)
                /\ RLe(Zero, LotCost(lot))

(***************************************************************************)
(* C24  A row whose action is neither BUY nor SELL (DIV, OTHER or any      *)
(* other value) leaves every lot queue, every realized-P&L entry and the   *)
(* merger carryover unchanged.                                             *)
(***************************************************************************)
LastIsNeitherBuyNorSell ==
    /\ hist # <<>>
    /\ Last(hist).Action \notin {"BUY", "SELL"}

C24_OtherActionsChangeNothing ==
    LastIsNeitherBuyNorSell =>
        /\ \A s \in Symbols :
             /\ LotsOf(run, s) = LotsOf(before, s)
             /\ CarryOf(run, s) = CarryOf(before, s)
        /\ PnlEntries(run) = PnlEntries(before)
        /\ run = before

\* a DIV or OTHER row of positive quantity met open lots and a pending
\* carryover in compute_realized_fifo
C24_Witness ==
    /\ LastIsNeitherBuyNorSell
    /\ engine = "compute_realized_fifo"
    /\ RGt(Last(hist).Quantity, Zero)
    /\ LotsOf(before, "OLD") # <<>>
    /\ RGt(CarryOf(before, "OLD"), Zero)

(***************************************************************************)
(* C25  Currency is never converted inside the ledger: a lot carries the   *)
(* currency of the BUY that created it and keeps it, and each realized-P&L *)
(* contribution is added, unscaled, to the entry of the symbol and of the  *)
(* SELL's currency.                                                        *)
(***************************************************************************)
Currencies(q) == [i \in 1..Len(q) |-> LotCurrency(q[i])]

IsSuffix(t, q) == Len(t) <= Len(q) /\ SubSeq(q, Len(q) - Len(t) + 1, Len(q)) = t

\* the row moves cost to the carryover instead of realized P&L
DivertsToCarryover(tx) ==
    /\ engine # "recalculate"
    /\ "SURRENDERED" \in tx.Description /\ HasMergerWord(tx.Description)

C25_CurrencyNeverConverted ==
    hist # <<>> =>
        LET tx   == Last(hist)
            sym  == tx.Symbol
            pre  == LotsOf(before, sym)
            post == LotsOf(run, sym)
            matched == RSub(SumQty(pre), SumQty(post))
            removed == RSub(SumCost(pre), SumCost(post))
        IN  /\ \A s \in Symbols \ {sym} :
                 Currencies(LotsOf(run, s)) = Currencies(LotsOf(before, s))
            /\ CASE tx.Action = "BUY" ->
                      /\ Len(post) > Len(pre) => LotCurrency(Last(post)) = tx.Currency
                      /\ IsPrefix(Currencies(pre), Currencies(post))
                      /\ PnlEntries(run) = PnlEntries(before)
                 [] tx.Action = "SELL" ->
                      /\ IsSuffix(Currencies(post), Currencies(pre))
                      /\ \A e \in PnlEntries(run) :
                           (e[1] # sym \/ e[2] # tx.Currency) => e \in PnlEntries(before)
                      /\ PnlOf(run, sym, tx.Currency) =
                            IF pre = post \/ DivertsToCarryover(tx)
                            THEN PnlOf(before, sym, tx.Currency)
                            ELSE RAdd(PnlOf(before, sym, tx.Currency),
                                      RSub(RMul(SpecProceeds(tx),
                                                RDiv(matched, tx.Quantity)),
                                           removed))
                 [] OTHER -> run = before

\* a USD SELL took part of a lot bought in CAD: the lot stays CAD and the
\* contribution went to the USD entry
C25_Witness ==
    /\ hist # <<>>
    /\ Last(hist).Action = "SELL"
    /\ Last(hist).Currency = "USD"
    /\ LotsOf(run, "OLD") # <<>>
    /\ LotCurrency(LotsOf(run, "OLD")[1]) = "CAD"
    /\ LotsOf(run, "OLD") # LotsOf(before, "OLD")
    /\ PnlOf(run, "OLD", "USD") # PnlOf(before, "OLD", "USD")

(***************************************************************************)
(* C26  clean_symbol returns a string for every input; whenever the        *)
(* trimmed, upper-cased symbol without its UNITS, ETF and .TO suffix is in *)
(* CANADIAN_TICKERS the result is that ticker followed by ".TO"; and an    *)
(* input that is empty, 'NAN' or longer than 10 characters is replaced by  *)
(* the ticker looked up from the description, or by the empty string when  *)
(* no keyword matches.                                                     *)
(***************************************************************************)
Cleaned == engine = "clean_symbol" /\ pc = "iter"

\* the trimmed, upper-cased symbol without its unit, ETF and .TO suffix
Bare(raw) ==
    LET upper == Ticker(raw.stem, raw.suffixes)
    IN  SubLast(SubLast(SubLast(upper, {" UNITS", " UNIT"}), {" ETF"}), {".TO"})

MissingOrLong(raw) ==
    \/ raw.stem = "" /\ raw.suffixes = <<>>
    \/ raw.stem = "NAN" /\ raw.suffixes = <<>>
    \/ TextLen(raw) > 10

C26_CleanSymbol ==
    Cleaned =>
        LET raw == df_tx[1].Symbol
            description == df_tx[1].Description
            result == hist[1]
        IN  /\ ~result.lower /\ ~result.padded
            /\ (Bare(raw).suffixes = <<>> /\ Bare(raw).stem \in CANADIAN_TICKERS) =>
                   result = Ticker(Bare(raw).stem, <<".TO">>)
            /\ (MissingOrLong(raw)
                  /\ ~(Bare(raw).suffixes = <<>> /\ Bare(raw).stem \in CANADIAN_TICKERS)) =>
                   result = extract_td_symbol(description)

(***************************************************************************)
(* C27  Cost basis is conserved per run: after every processed row the sum *)
(* of the native costs of the BUYs processed so far equals the sum of the  *)
(* costs of the open lots, plus the cost basis charged to realized P&L by  *)
(* ordinary SELLs, plus the merger carryover still pending.                *)
(***************************************************************************)
StateAt(i) == RunOf(SubSeq(hist, 1, i))

\* a BUY the engine queues: calculate_holdings queues every BUY, the other
\* two skip a quantity that is not positive
Queued(tx) ==
    tx.Action = "BUY" /\ (engine = "calculate_holdings" \/ RGt(tx.Quantity, Zero))

NativeCosts ==
    SumOver([i \in 1..Len(hist) |->
                IF Queued(hist[i]) THEN SpecCost(hist[i]) ELSE Zero], 1, Len(hist))

OpenLotsCost(st) == RAdd(SumCost(LotsOf(st, "OLD")), SumCost(LotsOf(st, "NEW")))

PendingCarryover(st) == RAdd(CarryOf(st, "OLD"), CarryOf(st, "NEW"))

RECURSIVE SumPnl(_)
SumPnl(entries) ==
    IF entries = {} THEN Zero
    ELSE LET e == CHOOSE x \in entries : TRUE
         IN  RAdd(e[3], SumPnl(entries \ {e}))

\* the cost row i charged to realized P&L, read off the P&L it produced:
\* the proceeds credited minus the growth of the P&L
ChargedByRow(i) ==
    LET tx   == hist[i]
        pre  == LotsOf(StateAt(i - 1), tx.Symbol)
        post == LotsOf(StateAt(i), tx.Symbol)
        matched == RSub(SumQty(pre), SumQty(post))
    IN  IF tx.Action = "SELL" /\ ~DivertsToCarryover(tx) /\ pre # post
        THEN RSub(RMul(SpecProceeds(tx), RDiv(matched, tx.Quantity)),
                  RSub(SumPnl(PnlEntries(StateAt(i))),
                       SumPnl(PnlEntries(StateAt(i - 1)))))
        ELSE Zero

\* cost_basis_sold where the engine records it, else the sum of the rows' charges
ChargedToPnl ==
    IF engine = "calculate_holdings"
    THEN SumOver([i \in 1..Len(hist) |-> ChargedByRow(i)], 1, Len(hist))
    ELSE LET keys == IF engine = "recalculate"
                     THEN <<<<symbol, "CAD">>, <<symbol, "USD">>>>
                     ELSE <<<<"OLD", "CAD">>, <<"OLD", "USD">>,
                            <<"NEW", "CAD">>, <<"NEW", "USD">>>>
         IN  SumOver([k \in 1..Len(keys) |->
                         CostBasisSoldOf(run, keys[k][1], keys[k][2])], 1, Len(keys))

C27_CostConserved ==
    engine \in Engines =>
        NativeCosts = RAdd(OpenLotsCost(run), RAdd(ChargedToPnl, PendingCarryover(run)))

(***************************************************************************)
(* C27 (amended)  The same sum, plus the cost still in the lots that were  *)
(* taken off the queue with a remaining quantity of at most 1e-6.          *)
(***************************************************************************)
\* the cost left in the last lot row i took off the queue, when the SELL's
\* quantity did not cover the lots it took off
DroppedByRow(i) ==
    LET tx    == hist[i]
        pre   == LotsOf(StateAt(i - 1), tx.Symbol)
        post  == LotsOf(StateAt(i), tx.Symbol)
        k     == Len(pre) - Len(post)
        over  == RSub(SumQty(SubSeq(pre, 1, k)), tx.Quantity)
    IN  IF tx.Action = "SELL" /\ k >= 1 /\ RGt(over, Zero)
        THEN RMul(LotCost(pre[k]), RDiv(over, LotQty(pre[k])))
        ELSE Zero

DroppedWithDust == SumOver([i \in 1..Len(hist) |-> DroppedByRow(i)], 1, Len(hist))

C27_CostConservedUpToDust ==
    engine \in Engines =>
        NativeCosts = RAdd(RAdd(OpenLotsCost(run), DroppedWithDust),
                           RAdd(ChargedToPnl, PendingCarryover(run)))

\* compute_realized_fifo after a purchase, a surrender, a receipt: cost in a
\* lot that had consumed the carryover
C27_Witness ==
    /\ engine = "compute_realized_fifo"
    /\ Len(hist) = 3
    /\ IsMergerSurrender(hist[2].Description)
    /\ IsMergerReceipt(hist[3].Description)
    /\ hist[3].Symbol = hist[2].Symbol
    /\ RGt(CarryOf(before, hist[2].Symbol), Zero)
    /\ RGt(OpenLotsCost(run), Zero)

(***************************************************************************)
(* C28  A realized-P&L contribution recorded under (symbol, currency c)    *)
(* takes its cost only from lots whose own currency is c: a SELL in one    *)
(* currency never consumes a lot of the symbol bought in another currency. *)
(***************************************************************************)
\* the positions, in the queue before the SELL, of the lots it took from
ConsumedLots(pre, post) ==
    LET k == Len(pre) - Len(post)
    IN  (1..k) \cup (IF post # <<>> /\ LotQty(post[1]) # LotQty(pre[k + 1])
                     THEN {k + 1} ELSE {})

\* stated on streams of positive quantities
C28_SellConsumesOwnCurrency ==
    (/\ hist # <<>>
     /\ \A i \in 1..Len(hist) : RGt(hist[i].Quantity, Zero)
     /\ Last(hist).Action = "SELL"
     /\ ~DivertsToCarryover(Last(hist))) =>
        LET tx   == Last(hist)
            pre  == LotsOf(before, tx.Symbol)
            post == LotsOf(run, tx.Symbol)
        IN  \A i \in ConsumedLots(pre, post) : LotCurrency(pre[i]) = tx.Currency

(***************************************************************************)
(* C29  On a stream sorted by date and rank, without merger events and     *)
(* with positive quantities only, calculate_holdings,                      *)
(* compute_realized_fifo and the loop of                                   *)
(* _recalculate_realized_pnl_for_symbol run per symbol compute the same    *)
(* realized P&L for every (symbol, currency) and the same remaining lots.  *)
(***************************************************************************)
RECURSIVE FoldCH(_, _)
FoldCH(st, h) == IF h = <<>> THEN st ELSE FoldCH(CHStep(st, Head(h)), Tail(h))

RECURSIVE FoldRecalc(_, _, _)
FoldRecalc(st, h, sym) ==
    IF h = <<>> THEN st
    ELSE FoldRecalc(IF Head(h).Symbol = sym
                    THEN RecalcStep(st, DbRow(Head(h), Head(h).Date), sym) ELSE st,
                    Tail(h), sym)

\* quantity, cost and currency of each lot of a queue of calculate_holdings
LotsCH(st, sym) ==
    LET q == LotsOf(st, sym)
    IN  [i \in 1..Len(q) |-> <<q[i].Quantity, q[i].Cost, q[i].Currency>>]

\* the same of a queue of the other two engines
LotsFifo(st, sym) ==
    LET q == LotsOf(st, sym)
    IN  [i \in 1..Len(q) |-> <<q[i].qty, q[i].cost, q[i].currency>>]

\* the P&L entry of (sym, cur) in each engine; <<>> when there is none
PnlCH(st, sym, cur) ==
    IF sym \in DOMAIN st.realized_pnl /\ cur \in DOMAIN st.realized_pnl[sym]
    THEN <<st.realized_pnl[sym][cur]>> ELSE <<>>
PnlCRF(st, sym, cur) ==
    IF <<sym, cur>> \in DOMAIN st.result THEN <<st.result[<<sym, cur>>].pnl>> ELSE <<>>
PnlRecalc(st, cur) ==
    IF cur \in DOMAIN st.realized THEN <<st.realized[cur].pnl>> ELSE <<>>

NoMergerPositiveStream ==
    \A i \in 1..Len(hist) :
        /\ RGt(hist[i].Quantity, Zero)
        /\ ~("SURRENDERED" \in hist[i].Description /\ HasMergerWord(hist[i].Description))
        /\ ~("RECEIVED" \in hist[i].Description /\ HasMergerWord(hist[i].Description))

C29_EnginesAgree ==
    (engine = "calculate_holdings" /\ NoMergerPositiveStream) =>
        LET ch  == FoldCH(CHEmpty, hist)
            crf == CRFFold(CRFEmpty, hist)
        IN  /\ ch = run
            /\ \A sym \in SymbolsOf(hist) :
                 LET rec == FoldRecalc(RecalcEmpty, hist, sym)
                 IN  /\ LotsCH(ch, sym) = LotsFifo(crf, sym)
                     /\ LotsCH(ch, sym) = LotsFifo(rec, sym)
                     /\ \A cur \in {"CAD", "USD"} :
                          /\ PnlCH(ch, sym, cur) = PnlCRF(crf, sym, cur)
                          /\ PnlCH(ch, sym, cur) = PnlRecalc(rec, cur)

(***************************************************************************)
(* C30  _recalculate_realized_pnl_for_symbol(S) changes only RealizedPnL   *)
(* rows of symbol S and source "db_transaction": the rows of other symbols *)
(* and the rows of source "broker_csv" stay as they were, and afterwards   *)
(* there is at most one "db_transaction" row per (S, currency); and        *)
(* migrate keeps the "db_transaction" rows.                                *)
(***************************************************************************)
IsDbTransaction(r) == r.source = "db_transaction"

CountOf(table, sym) ==
    LET of_symbol(r) == r.symbol = sym IN Len(SelectSeq(table, of_symbol))

\* the rows that are not (sym, "db_transaction")
OtherRows(table, sym) ==
    LET other(r) == ~(r.symbol = sym /\ r.source = "db_transaction")
    IN  SelectSeq(table, other)

AtMostOnePerCurrency(table, sym) ==
    \A i, j \in 1..Len(table) :
        (/\ table[i].symbol = sym /\ table[j].symbol = sym
         /\ IsDbTransaction(table[i]) /\ IsDbTransaction(table[j])
         /\ table[i].currency = table[j].currency) => i = j

\* the step in which a handler's _recalculate_realized_pnl_for_symbol(S) commits
RecalculateFrame ==
    \A r \in BagToSet(requests) :
        (r.at = "commit" /\ requests' = Removed(requests, r)
            /\ realizedpnl_id' # realizedpnl_id) =>
            /\ OtherRows(realizedpnl_table', r.symbol)
                  = OtherRows(realizedpnl_table, r.symbol)
            /\ AtMostOnePerCurrency(realizedpnl_table', r.symbol)

\* a commit of migrate
MigrateFrame ==
    migration' # migration =>
        SelectSeq(realizedpnl_table', IsDbTransaction)
            = SelectSeq(realizedpnl_table, IsDbTransaction)

C30_RecalculateAndMigrateFrames == [][RecalculateFrame /\ MigrateFrame]_vars

=============================================================================
